---- MODULE Spec2Model ----
(***************************************************************************)
(* Model of backend/main.py: ComplexityAnalyzer.score and                  *)
(* RepositoryProcessor (scan_and_read, _extract_imports, _resolve_import,  *)
(* generate_tree).                                                         *)
(*                                                                         *)
(* Representation.  A Python str is modelled as the list of its lines      *)
(* (s.split("\n")), run-length encoded: a Text is a non-empty sequence of  *)
(* runs [k, n, c, f] standing for c consecutive lines of n characters      *)
(* each, of kind k, f naming the file a "hdr" line identifies.  The empty  *)
(* str is the single empty line.  Names and import tokens are TLA+ strings *)
(* examined character by character.  Complexity scores are kept in tenths. *)
(***************************************************************************)
EXTENDS Integers, Sequences, FiniteSets, TLC

VARIABLES fs, cfg, pc, todo, pending, meta_list, code_parts, lang_stats,
          totals, summary, payload, remaining, sorted_files, used, budgets,
          final_parts, assembled, scanNo, prev, response, events, stream

vars == <<fs, cfg, pc, todo, pending, meta_list, code_parts, lang_stats,
          totals, summary, payload, remaining, sorted_files, used, budgets,
          final_parts, assembled, scanNo, prev, response, events, stream>>

(***************************************************************************)
(* Generic helpers                                                         *)
(***************************************************************************)
Min(a, b) == IF a <= b THEN a ELSE b

Max(a, b) == IF a >= b THEN a ELSE b

Range(s) == {s[i] : i \in 1..Len(s)}

RECURSIVE SumRange(_, _, _)
\* s[lo] + ... + s[hi], by halves
SumRange(s, lo, hi) ==
    IF lo > hi THEN 0
    ELSE IF lo = hi THEN s[lo]
    ELSE SumRange(s, lo, (lo + hi) \div 2) + SumRange(s, (lo + hi) \div 2 + 1, hi)

\* sum(s)
SumSeq(s) == SumRange(s, 1, Len(s))

RECURSIVE Digits(_)
\* len(str(n)) for an int n >= 0
Digits(n) == IF n < 10 THEN 1 ELSE 1 + Digits(n \div 10)

\* len(str(x)) for a float x >= 0 with one decimal, x given in tenths
FloatLen(t) == Digits(t \div 10) + 2

(***************************************************************************)
(* str operations used by the code                                         *)
(***************************************************************************)
AsciiOrder == "-./0123456789ABCDEFGHIJKLMNOPQRSTUVWXYZ_abcdefghijklmnopqrstuvwxyz"

UpperChars == "ABCDEFGHIJKLMNOPQRSTUVWXYZ"

LowerChars == "abcdefghijklmnopqrstuvwxyz"

\* character -> rank in code-point order
OrdMap ==
    [ch \in {SubSeq(AsciiOrder, i, i) : i \in 1..Len(AsciiOrder)} |->
        CHOOSE i \in 1..Len(AsciiOrder) : SubSeq(AsciiOrder, i, i) = ch]

Ord(ch) == OrdMap[ch]

\* a < b on str (code-point order), as sorted() compares names
StrLess(a, b) ==
    LET diff == {i \in 1..Min(Len(a), Len(b)) : SubSeq(a, i, i) # SubSeq(b, i, i)}
    IN  IF diff = {} THEN Len(a) < Len(b)
        ELSE LET i == CHOOSE x \in diff : \A y \in diff : x <= y
             IN  Ord(SubSeq(a, i, i)) < Ord(SubSeq(b, i, i))

\* upper-case character -> its lower-case form
LowerMap ==
    [ch \in {SubSeq(UpperChars, i, i) : i \in 1..Len(UpperChars)} |->
        LET i == CHOOSE j \in 1..Len(UpperChars) : SubSeq(UpperChars, j, j) = ch
        IN  SubSeq(LowerChars, i, i)]

LowerChar(ch) == IF ch \in DOMAIN LowerMap THEN LowerMap[ch] ELSE ch

RECURSIVE Lower(_)
\* str.lower()
Lower(s) ==
    IF Len(s) = 0 THEN ""
    ELSE IF Len(s) = 1 THEN LowerChar(s)
    ELSE Lower(SubSeq(s, 1, Len(s) \div 2)) \o Lower(SubSeq(s, Len(s) \div 2 + 1, Len(s)))

RECURSIVE Replace(_, _, _)
\* str.replace(a, b) for a single-character a
Replace(s, a, b) ==
    IF Len(s) = 0 THEN ""
    ELSE IF Len(s) = 1 THEN (IF s = a THEN b ELSE s)
    ELSE Replace(SubSeq(s, 1, Len(s) \div 2), a, b) \o Replace(SubSeq(s, Len(s) \div 2 + 1, Len(s)), a, b)

\* c in f
Contains(f, c) == \E i \in 0..(Len(f) - Len(c)) : SubSeq(f, i + 1, i + Len(c)) = c

\* f.endswith(c)
EndsWith(f, c) == Len(c) <= Len(f) /\ SubSeq(f, Len(f) - Len(c) + 1, Len(f)) = c

\* re.sub(r"^\.\.?/", "", imp)
StripRelative(imp) ==
    IF Len(imp) >= 2 /\ SubSeq(imp, 1, 2) = "./" THEN SubSeq(imp, 3, Len(imp))
    ELSE IF Len(imp) >= 3 /\ SubSeq(imp, 1, 3) = "../" THEN SubSeq(imp, 4, Len(imp))
    ELSE imp

\* pathlib: PurePath(name).suffix
Suffix(name) ==
    LET dots == {i \in 1..Len(name) : SubSeq(name, i, i) = "."}
    IN  IF dots = {} THEN ""
        ELSE LET i == CHOOSE j \in dots : \A m \in dots : m <= j
             IN  IF i = 1 \/ i = Len(name) THEN "" ELSE SubSeq(name, i, Len(name))

\* os.path.join(parent, name) relative to the scan root ("" is the root itself)
JoinPath(parent, name) == IF parent = "" THEN name ELSE parent \o "/" \o name

(***************************************************************************)
(* Text: a str as run-length encoded lines                                 *)
(***************************************************************************)
Run(k, n, c, f) == [k |-> IF n = 0 THEN "blank" ELSE k, n |-> n, c |-> c, f |-> IF n = 0 THEN 0 ELSE f]

Line(k, n) == Run(k, n, 1, 0)

BlankLine == Line("blank", 0)

\* the str ""
EmptyText == <<BlankLine>>

\* append run r to the line list t, merging equal neighbours
Push(t, r) ==
    IF r.c = 0 THEN t
    ELSE IF t # <<>> /\ t[Len(t)].k = r.k /\ t[Len(t)].n = r.n /\ t[Len(t)].f = r.f
         THEN [t EXCEPT ![Len(t)].c = @ + r.c]
         ELSE Append(t, r)

\* list concatenation a + b of two line lists
PushAll(a, b) == IF b = <<>> THEN a ELSE Push(a, Head(b)) \o Tail(b)

RECURSIVE PushRange(_, _, _)
\* ts[lo] + ... + ts[hi] on line lists, by halves
PushRange(ts, lo, hi) ==
    IF lo > hi THEN <<>>
    ELSE IF lo = hi THEN ts[lo]
    ELSE PushAll(PushRange(ts, lo, (lo + hi) \div 2), PushRange(ts, (lo + hi) \div 2 + 1, hi))

\* the lines of the first i runs
LinesUpTo(t, i) == SumRange([j \in 1..Len(t) |-> t[j].c], 1, i)

\* the characters of the first i runs, each line with the "\n" after it
CharsUpTo(t, i) == SumRange([j \in 1..Len(t) |-> t[j].c * (t[j].n + 1)], 1, i)

\* len(s.split("\n"))
NumLines(t) == LinesUpTo(t, Len(t))

LineChars(t) == CharsUpTo(t, Len(t)) - NumLines(t)

\* len(s): the characters of the lines and the "\n" between them
TLen(t) == LineChars(t) + NumLines(t) - 1

\* "\n".join(lines)
Join(lines) == IF lines = <<>> THEN EmptyText ELSE lines

\* s.split("\n")
Split(t) == t

\* lines[:m]
TakeLines(t, m) ==
    IF m <= 0 THEN <<>>
    ELSE IF m >= NumLines(t) THEN t
    ELSE LET cum == [i \in 0..Len(t) |-> LinesUpTo(t, i)]
             k == CHOOSE i \in 1..Len(t) : cum[i - 1] < m /\ m <= cum[i]
         IN  Append(SubSeq(t, 1, k - 1), [t[k] EXCEPT !.c = m - cum[k - 1]])

\* lines[m:]
DropLines(t, m) ==
    IF m <= 0 THEN t
    ELSE IF m >= NumLines(t) THEN <<>>
    ELSE LET cum == [i \in 0..Len(t) |-> LinesUpTo(t, i)]
             k == CHOOSE i \in 1..Len(t) : cum[i - 1] <= m /\ m < cum[i]
         IN  <<[t[k] EXCEPT !.c = cum[k] - m]>> \o SubSeq(t, k + 1, Len(t))

\* lines[-m:] for m > 0
LastLines(t, m) == DropLines(t, NumLines(t) - m)

FirstLine(t) == [Head(t) EXCEPT !.c = 1]

LastLine(t) == [t[Len(t)] EXCEPT !.c = 1]

\* the line two str make where they meet
MergeLine(a, b) ==
    IF b.n = 0 THEN a
    ELSE IF a.n = 0 THEN b
    ELSE Run("part", a.n + b.n, 1, 0)

\* a + b on str
Concat(a, b) ==
    LET la == a[Len(a)]
        fb == Head(b)
    IN  PushAll(Push(Push(SubSeq(a, 1, Len(a) - 1), [la EXCEPT !.c = @ - 1]),
                     MergeLine(LastLine(a), FirstLine(b))),
                Push(<<>>, [fb EXCEPT !.c = @ - 1]) \o Tail(b))

RECURSIVE ConcatRange(_, _, _)
\* parts[lo] + ... + parts[hi] on str, by halves
ConcatRange(parts, lo, hi) ==
    IF lo > hi THEN EmptyText
    ELSE IF lo = hi THEN parts[lo]
    ELSE Concat(ConcatRange(parts, lo, (lo + hi) \div 2),
                ConcatRange(parts, (lo + hi) \div 2 + 1, hi))

\* "".join(parts)
ConcatAll(parts) == ConcatRange(parts, 1, Len(parts))

\* the lines of the first b characters, for 0 <= b < TLen(t)
TakeRuns(t, b) ==
    LET cum == [i \in 0..Len(t) |-> CharsUpTo(t, i)]
        k == CHOOSE i \in 1..Len(t) : cum[i - 1] <= b /\ b < cum[i]
        r == t[k]
        q == (b - cum[k - 1]) \div (r.n + 1)
        rest == b - cum[k - 1] - q * (r.n + 1)
    IN  Push(Push(SubSeq(t, 1, k - 1), [r EXCEPT !.c = q]),
             IF rest = r.n THEN [r EXCEPT !.c = 1] ELSE Run("part", rest, 1, 0))

\* s[:b] for b >= 0
TakeChars(t, b) == IF b >= TLen(t) THEN t ELSE TakeRuns(t, b)

\* some line of t is a whole line of kind k
HasLine(t, k) == \E i \in 1..Len(t) : t[i].k = k

\* the number of lines of kind k
CountLines(t, k) == SumSeq([i \in 1..Len(t) |-> IF t[i].k = k THEN t[i].c ELSE 0])

(***************************************************************************)
(* Tables of the program                                                   *)
(***************************************************************************)
IGNORE_PATHS ==
    {".cache", ".git", ".idea", ".mypy_cache", ".next", ".pytest_cache", ".tox", ".venv",
     ".vscode", "__pycache__", "bin", "build", "coverage", "dist", "egg-info", "env",
     "logs", "node_modules", "obj", "target", "tmp", "vendor", "venv"}

\* extension -> language name (the colour is not modelled)
LANGUAGE_MAP ==
    {<<".py", "Python">>, <<".js", "JavaScript">>, <<".ts", "TypeScript">>,
     <<".jsx", "React JSX">>, <<".tsx", "React TSX">>, <<".c", "C">>, <<".cpp", "C++">>,
     <<".h", "C/C++ Header">>, <<".hpp", "C++ Header">>, <<".rs", "Rust">>,
     <<".go", "Go">>, <<".java", "Java">>, <<".kt", "Kotlin">>, <<".swift", "Swift">>,
     <<".rb", "Ruby">>, <<".php", "PHP">>, <<".cs", "C#">>, <<".cu", "CUDA">>,
     <<".cuh", "CUDA Header">>, <<".sh", "Shell">>, <<".bat", "Batch">>,
     <<".sql", "SQL">>, <<".proto", "Protobuf">>, <<".zig", "Zig">>, <<".lua", "Lua">>,
     <<".scala", "Scala">>, <<".r", "R">>, <<".dart", "Dart">>, <<".ex", "Elixir">>,
     <<".exs", "Elixir Script">>, <<".vue", "Vue">>, <<".svelte", "Svelte">>,
     <<".json", "JSON">>, <<".yaml", "YAML">>, <<".yml", "YAML">>, <<".toml", "TOML">>,
     <<".xml", "XML">>, <<".ini", "INI">>, <<".cfg", "Config">>, <<".env", "Env">>,
     <<".properties", "Properties">>, <<".html", "HTML">>, <<".htm", "HTML">>,
     <<".css", "CSS">>, <<".scss", "SCSS">>, <<".sass", "Sass">>, <<".less", "Less">>,
     <<".md", "Markdown">>, <<".rst", "reStructuredText">>, <<".txt", "Text">>,
     <<".dockerfile", "Dockerfile">>, <<".makefile", "Makefile">>, <<".cmake", "CMake">>,
     <<".gradle", "Gradle">>, <<".tf", "Terraform">>, <<".hcl", "HCL">>,
     <<".csv", "CSV">>, <<".graphql", "GraphQL">>, <<".prisma", "Prisma">>}

SUPPORTED_EXTENSIONS == {p[1] : p \in LANGUAGE_MAP}

SPECIAL_FILENAMES ==
    {<<"Dockerfile", "Dockerfile">>, <<"Makefile", "Makefile">>,
     <<"Procfile", "Procfile">>, <<"Vagrantfile", "Vagrantfile">>,
     <<"Gemfile", "Gemfile">>, <<"Rakefile", "Rakefile">>, <<"Justfile", "Justfile">>,
     <<".gitignore", "Gitignore">>, <<".dockerignore", "Dockerignore">>,
     <<"requirements.txt", "Requirements">>, <<"package.json", "Package JSON">>,
     <<"tsconfig.json", "TS Config">>, <<"Cargo.toml", "Cargo Config">>,
     <<"go.mod", "Go Module">>, <<"go.sum", "Go Sum">>,
     <<"pyproject.toml", "PyProject">>, <<"setup.py", "Setup Script">>,
     <<"setup.cfg", "Setup Config">>, <<"docker-compose.yml", "Docker Compose">>,
     <<"docker-compose.yaml", "Docker Compose">>, <<".env.example", "Env Example">>}

SpecialNames == {p[1] : p \in SPECIAL_FILENAMES}

\* the extensions that have import patterns
IMPORT_PATTERNS ==
    {".py", ".js", ".ts", ".jsx", ".tsx", ".go", ".rs", ".java", ".c", ".cpp", ".h", ".cu"}

BRANCH_KW ==
    {<<".py", {"if ", "elif ", "else:", "for ", "while ", "except ", "with "}>>,
     <<".js", {"if ", "else ", "for ", "while ", "switch ", "case ", "catch "}>>,
     <<".ts", {"if ", "else ", "for ", "while ", "switch ", "case ", "catch "}>>,
     <<".jsx", {"if ", "else ", "for ", "while ", "switch ", "case ", "catch "}>>,
     <<".tsx", {"if ", "else ", "for ", "while ", "switch ", "case ", "catch "}>>,
     <<".go", {"if ", "else ", "for ", "switch ", "case ", "select "}>>,
     <<".rs", {"if ", "else ", "for ", "while ", "match ", "loop "}>>,
     <<".java", {"if ", "else ", "for ", "while ", "switch ", "case ", "catch "}>>,
     <<".c", {"if ", "else ", "for ", "while ", "switch ", "case "}>>,
     <<".cpp", {"if ", "else ", "for ", "while ", "switch ", "case ", "catch "}>>}

\* BRANCH_KW.get(ext, ["if ", "for ", "while "])
Keywords(ext) ==
    IF \E p \in BRANCH_KW : p[1] = ext
    THEN (CHOOSE p \in BRANCH_KW : p[1] = ext)[2]
    ELSE {"if ", "for ", "while "}

\* dict.get(key, default) on a table of pairs
Lookup(table, key, default) ==
    IF \E p \in table : p[1] = key THEN (CHOOSE p \in table : p[1] = key)[2] ELSE default

(***************************************************************************)
(* ComplexityAnalyzer.score, in fixed point.  A file text is a sequence of *)
(* runs [kw, n, ind, c]: c lines of n characters, ind of them leading      *)
(* whitespace, holding the branching keyword kw ("" for none).  A line is  *)
(* blank (l.strip() empty) when ind = n.  Factors are in 1/10000, the      *)
(* score in tenths of a point.                                             *)
(***************************************************************************)
\* floor(10000 * log10(n)) at the tabulated line counts
Log10Table ==
    {<<1, 0>>, <<2, 3010>>, <<3, 4771>>, <<4, 6020>>, <<5, 6989>>, <<6, 7781>>,
     <<7, 8450>>, <<8, 9030>>, <<9, 9542>>, <<10, 10000>>, <<11, 10413>>, <<12, 10791>>,
     <<20, 13010>>, <<30, 14771>>, <<40, 16020>>, <<50, 16989>>, <<51, 17075>>,
     <<52, 17160>>, <<60, 17781>>, <<80, 19030>>, <<81, 19084>>, <<100, 20000>>,
     <<101, 20043>>, <<102, 20086>>, <<120, 20791>>, <<150, 21760>>, <<170, 22304>>,
     <<171, 22329>>, <<199, 22988>>, <<200, 23010>>, <<201, 23031>>, <<202, 23053>>,
     <<250, 23979>>, <<251, 23996>>, <<300, 24771>>, <<500, 26989>>, <<1000, 30000>>,
     <<2000, 33010>>, <<5000, 36989>>, <<10000, 40000>>, <<20000, 43010>>,
     <<50000, 46989>>, <<100000, 50000>>, <<200000, 53010>>}

\* math.log10(n) * 10000, read at the largest tabulated count <= n
Log10E4(n) ==
    LET keys == {p[1] : p \in Log10Table}
        k == CHOOSE x \in keys : x <= n /\ \A y \in keys : y <= n => y <= x
    IN  (CHOOSE p \in Log10Table : p[1] = k)[2]

RECURSIVE BranchCount(_, _)
\* sum(1 for l in lines if any(kw in l for kw in keywords))
BranchCount(content, keywords) ==
    IF content = <<>> THEN 0
    ELSE (IF Head(content).kw \in keywords THEN Head(content).c ELSE 0)
         + BranchCount(Tail(content), keywords)

\* max((len(l) - len(l.lstrip()) for l in lines if l.strip()), default=0)
MaxIndent(content) ==
    LET inds == {content[i].ind : i \in {j \in 1..Len(content) : content[j].ind < content[j].n}}
    IN  IF inds = {} THEN 0 ELSE CHOOSE x \in inds : \A y \in inds : y <= x

\* variant: max_indent / 40.0 without the inner min
NestingUnclamped(max_indent) == max_indent * 250

\* min(max_indent / 4.0, 10) / 10.0
Nesting(max_indent) == Min(max_indent * 250, 10000)

\* min(branch_count / max(total, 1), 1.0)
Density(branch_count, total) == Min((branch_count * 10000) \div Max(total, 1), 10000)

\* min(math.log10(max(total, 1)) / 4.0, 1.0)
LengthFactor(total) == Min(Log10E4(Max(total, 1)) \div 4, 10000)

\* round(min((density * 0.4 + nesting * 0.35 + length * 0.25) * 100, 100), 1)
Weighted(density, nesting, length) ==
    Min((40 * density + 35 * nesting + 25 * length + 500) \div 1000, 1000)

Score(content, ext) ==
    LET total == NumLines(content)
    IN  IF total = 0 THEN 0
        ELSE Weighted(Density(BranchCount(content, Keywords(ext)), total),
                      Nesting(MaxIndent(content)),
                      LengthFactor(total))

(***************************************************************************)
(* Constants of RepositoryProcessor.scan_and_read                          *)
(***************************************************************************)
MAX_PAYLOAD_CHARS == 300000

MAX_FILE_BYTES == 200000

EXCERPT_MAX_LINES == 200

EXCERPT_HEAD_LINES == 120

EXCERPT_TAIL_LINES == 50

TOP_RANKS == 5

MID_RANKS == 15

TOP_BUDGET == 60000

MID_BUDGET == 10000

LOW_BUDGET == 3000

LOW_LINES == 80

\* the entry-point bonus of 100 points, in tenths
ENTRY_BONUS == 1000

HOTSPOT_COUNT == 5

MOST_CONNECTED_COUNT == 5

\* len("...(truncated)...")
ELIDE_LEN == 17

\* len("...(truncated to first 80 lines)...")
ELIDE80_LEN == 35

\* len("...(payload truncated to fit context window)...")
FINAL_LEN == 47

ENTRY_POINTS == {"main", "app", "index", "server"}

(***************************************************************************)
(* The file system scanned.  fs is a sequence of directories               *)
(* [name, parent, files], fs[1] the scan root (parent 0).  A file is       *)
(* [name, size, content, found, fail, copies]: size is st_size, content    *)
(* the decoded text, found what the import patterns match in it, fail the  *)
(* step at which handling the file raises ("none", "stat", "open",         *)
(* "mtime"), copies the number of sibling files of this shape (more than   *)
(* one only for files over the size ceiling, which are never read).        *)
(***************************************************************************)
RootDir == 1

RECURSIVE RelDir(_, _)
\* os.path.relpath(dir, self.root), "" for the root
RelDir(tree, d) ==
    IF d = RootDir THEN "" ELSE JoinPath(RelDir(tree, tree[d].parent), tree[d].name)

Children(tree, d) == {i \in 1..Len(tree) : tree[i].parent = d}

\* sorted(dirs): the directory ids in S by name (names in one directory differ)
SortDirs(tree, S) ==
    LET rank == [x \in S |-> Cardinality({y \in S : StrLess(tree[y].name, tree[x].name)})]
    IN  [k \in 1..Cardinality(S) |-> CHOOSE x \in S : rank[x] = k - 1]

\* sorted(files): the files in S by name
SortFiles(S) ==
    LET rank == [x \in S |-> Cardinality({y \in S : StrLess(y.name, x.name)})]
    IN  [k \in 1..Cardinality(S) |-> CHOOSE x \in S : rank[x] = k - 1]

\* [d for d in dirs if d not in IGNORE_PATHS]
NotIgnored(tree, S) == {i \in S : tree[i].name \notin IGNORE_PATHS}

\* variant: the test filter without lower()
NotTestDirCaseSensitive(name) == ~Contains(name, "test") /\ ~Contains(name, "spec")

\* "test" not in d.lower() and "spec" not in d.lower()
NotTestDir(name) == ~Contains(Lower(name), "test") /\ ~Contains(Lower(name), "spec")

\* the dirs[:] scan_and_read leaves for os.walk to descend into
ScanDirs(tree, d, include_tests) ==
    LET kept == NotIgnored(tree, Children(tree, d))
    IN  SortDirs(tree, IF include_tests THEN kept ELSE {i \in kept : NotTestDir(tree[i].name)})

(***************************************************************************)
(* Classification                                                          *)
(***************************************************************************)
\* fname in SPECIAL_FILENAMES or fname.lower() in {k.lower() for k in SPECIAL_FILENAMES}
SpecialNamesLower == {Lower(k) : k \in SpecialNames}

IsSpecial(fname) == fname \in SpecialNames \/ Lower(fname) \in SpecialNamesLower

\* fp.suffix.lower()
ExtOf(fname) == Lower(Suffix(fname))

\* not (ext not in SUPPORTED_EXTENSIONS and not is_special)
Recognized(fname) == ExtOf(fname) \in SUPPORTED_EXTENSIONS \/ IsSpecial(fname)

\* info["name"]
LanguageOf(fname) ==
    IF IsSpecial(fname) /\ ExtOf(fname) \notin SUPPORTED_EXTENSIONS
    THEN Lookup(SPECIAL_FILENAMES, fname, "Config")
    ELSE Lookup(LANGUAGE_MAP, ExtOf(fname), "Unknown")

\* generate_tree: ext in SUPPORTED_EXTENSIONS or f in SPECIAL_FILENAMES
TreeRecognized(f) == Suffix(f) \in SUPPORTED_EXTENSIONS \/ f \in SpecialNames

\* st.st_size > 200_000
Oversize(size) == size > MAX_FILE_BYTES

\* variant: the cap tested with > in place of >=
CapReachedLate(n, max_files) == n > max_files

\* variant: the cap never stops the scan
CapReachedNever(n, max_files) == FALSE

\* len(meta_list) >= self.max_files
CapReached(n, max_files) == n >= max_files

(***************************************************************************)
(* Per-file work of the scan                                               *)
(***************************************************************************)
RECURSIVE ToText(_)
\* the lines of a file text as Text runs
ToText(content) ==
    IF content = <<>> THEN <<>>
    ELSE PushAll(<<Run("code", Head(content).n, Head(content).c, 0)>>, ToText(Tail(content)))

ElideLine == Line("elide", ELIDE_LEN)

\* content if len(lns) <= 200 else "\n".join(lns[:120] + ["...(truncated)..."] + lns[-50:])
Excerpt(lns) ==
    IF NumLines(lns) <= EXCERPT_MAX_LINES THEN Join(lns)
    ELSE Join(PushAll(Push(TakeLines(lns, EXCERPT_HEAD_LINES), ElideLine),
                      LastLines(lns, EXCERPT_TAIL_LINES)))

\* len("--- FILE: {rel} | {name} | {n} lines | complexity={cx} ---")
FileHeaderLen(rel, lang, nlines, cx) ==
    10 + Len(rel) + 3 + Len(lang) + 3 + Digits(nlines) + 20 + FloatLen(cx) + 4

\* f"\n--- FILE: ... ---\n{show}\n", the header line tagged with the record's index
CodePart(idx, rel, lang, nlines, cx, show) ==
    PushAll(PushAll(<<BlankLine, Run("hdr", FileHeaderLen(rel, lang, nlines, cx), 1, idx)>>, show),
            <<BlankLine>>)

\* the orders list(set(imports)) can come out in
SetOrders(S) ==
    {s \in [1..Cardinality(S) -> S] : \A i, j \in 1..Cardinality(S) : s[i] = s[j] => i = j}

\* the matches _extract_imports collects: IMPORT_PATTERNS.get(ext, []) applied
Matches(found, ext) == IF ext \in IMPORT_PATTERNS THEN found ELSE <<>>

\* lang_stats[name] += n on an insertion-ordered dict
Bump(stats, name, n) ==
    IF \E i \in 1..Len(stats) : stats[i][1] = name
    THEN [i \in 1..Len(stats) |-> IF stats[i][1] = name THEN <<name, stats[i][2] + n>> ELSE stats[i]]
    ELSE Append(stats, <<name, n>>)

\* FileNodeInfo(...) (path, language_color and last_modified are not modelled)
FileNodeInfo(rel, f, lns, imports, cx) ==
    [relative_path |-> rel, size_bytes |-> f.size, line_count |-> NumLines(lns),
     extension |-> ExtOf(f.name), language |-> LanguageOf(f.name),
     imports |-> imports, complexity_score |-> cx,
     has_tests |-> Contains(Lower(rel), "test")]

(***************************************************************************)
(* DependencyResolver: _resolve_import and the link loop                   *)
(***************************************************************************)
\* the candidates of _resolve_import, in order (os.sep is "/")
Candidates(imp) ==
    <<Replace(imp, ".", "/"), Replace(imp, ".", "/") \o ".py",
      Replace(imp, "/", "/"), Replace(imp, "/", "/") \o ".js",
      Replace(imp, "/", "/") \o ".ts", Replace(imp, "/", "/") \o ".tsx",
      Replace(imp, "/", "/") \o ".jsx",
      StripRelative(imp)>>

\* f.endswith(c) or c in f
PathMatches(f, c) == EndsWith(f, c) \/ Contains(f, c)

\* _resolve_import(imp, all_files): the first file the first matching candidate
\* matches, "" standing for None
ResolveImport(imp, all_files) ==
    LET cands == Candidates(imp)
        hits == {i \in 1..Len(cands) : \E j \in 1..Len(all_files) : PathMatches(all_files[j], cands[i])}
    IN  IF hits = {} THEN ""
        ELSE LET i == CHOOSE x \in hits : \A y \in hits : x <= y
                 js == {j \in 1..Len(all_files) : PathMatches(all_files[j], cands[i])}
             IN  all_files[CHOOSE x \in js : \A y \in js : x <= y]

\* variant: the link loop without "target != m.relative_path"
LinkKeptSelf(target, source) == target # ""

\* if target and target != m.relative_path
LinkKept(target, source) == target # "" /\ target # source

RECURSIVE LinksFrom(_, _, _)
\* the links one record's imports produce, in import order
LinksFrom(source, imports, all_files) ==
    IF imports = <<>> THEN <<>>
    ELSE LET target == ResolveImport(Head(imports), all_files)
         IN  (IF LinkKept(target, source)
              THEN <<[source |-> source, target |-> target, type |-> "imports", raw |-> Head(imports)]>>
              ELSE <<>>)
             \o LinksFrom(source, Tail(imports), all_files)

RECURSIVE LinksOfAll(_, _, _, _)
\* the links of the records lo..hi in scan order, by halves
LinksOfAll(metas, all_files, lo, hi) ==
    IF lo > hi THEN <<>>
    ELSE IF lo = hi THEN LinksFrom(metas[lo].relative_path, metas[lo].imports, all_files)
    ELSE LinksOfAll(metas, all_files, lo, (lo + hi) \div 2)
         \o LinksOfAll(metas, all_files, (lo + hi) \div 2 + 1, hi)

\* dep_links: all_rels keeps the records' paths in scan order
DepLinks(metas) ==
    LinksOfAll(metas, [i \in 1..Len(metas) |-> metas[i].relative_path], 1, Len(metas))

(***************************************************************************)
(* Aggregator                                                              *)
(***************************************************************************)
\* variant: a descending sort that puts equal keys in reverse scan order
SortDescTiesLast(keys) ==
    LET n == Len(keys)
        pos(i) == 1 + Cardinality({j \in 1..n : keys[j] > keys[i] \/ (keys[j] = keys[i] /\ j > i)})
    IN  [p \in 1..n |-> CHOOSE i \in 1..n : pos(i) = p]

\* sorted(range(n), key=keys, reverse=True) as positions: stable, descending
SortDesc(keys) ==
    LET n == Len(keys)
        pos(i) == 1 + Cardinality({j \in 1..n : keys[j] > keys[i] \/ (keys[j] = keys[i] /\ j < i)})
    IN  [p \in 1..n |-> CHOOSE i \in 1..n : pos(i) = p]

\* seq[:m]
Prefix(seq, m) == SubSeq(seq, 1, Min(m, Len(seq)))

\* variant: the first five records in scan order, not sorted
HotspotsInScanOrder(metas) ==
    [p \in 1..Min(HOTSPOT_COUNT, Len(metas)) |->
        [file |-> metas[p].relative_path, complexity |-> metas[p].complexity_score,
         lines |-> metas[p].line_count, language |-> metas[p].language]]

\* hotspots: the first five of the records sorted by complexity, descending
Hotspots(metas) ==
    LET by_cx == SortDesc([i \in 1..Len(metas) |-> metas[i].complexity_score])
        top == Prefix(by_cx, HOTSPOT_COUNT)
    IN  [p \in 1..Len(top) |->
            [file |-> metas[top[p]].relative_path, complexity |-> metas[top[p]].complexity_score,
             lines |-> metas[top[p]].line_count, language |-> metas[top[p]].language]]

RECURSIVE Connections(_)
\* conn[l["source"]] += 1; conn[l["target"]] += 1 over the links, in dict order
Connections(links) ==
    IF links = <<>> THEN <<>>
    ELSE LET l == links[Len(links)]
         IN  Bump(Bump(Connections(SubSeq(links, 1, Len(links) - 1)), l.source, 1), l.target, 1)

\* variant: the first five of conn.items() in dict order, not sorted
MostConnectedUnsorted(links) ==
    LET conn == Connections(links)
    IN  [p \in 1..Min(MOST_CONNECTED_COUNT, Len(conn)) |->
            [file |-> conn[p][1], connections |-> conn[p][2]]]

\* most_connected: the first five of conn.items() sorted by count, descending
MostConnected(links) ==
    LET conn == Connections(links)
        top == Prefix(SortDesc([i \in 1..Len(conn) |-> conn[i][2]]), MOST_CONNECTED_COUNT)
    IN  [p \in 1..Len(top) |-> [file |-> conn[top[p]][1], connections |-> conn[top[p]][2]]]

\* round(sum(complexity) / max(len(meta_list), 1), 1), in tenths
AvgComplexity(metas) ==
    LET n == Max(Len(metas), 1)
        s == SumSeq([i \in 1..Len(metas) |-> metas[i].complexity_score])
    IN  (2 * s + n) \div (2 * n)

Summary(name, metas, stats, tot, links) ==
    [name |-> name, total_files |-> Len(metas), total_lines |-> tot.lines,
     total_bytes |-> tot.bytes, languages |-> stats, dependency_links |-> links,
     hotspots |-> Hotspots(metas), most_connected |-> MostConnected(links),
     avg_complexity |-> AvgComplexity(metas)]

(***************************************************************************)
(* TreeRenderer: generate_tree                                             *)
(***************************************************************************)
\* one line per recognized file of sorted(files), at indent level + 1
TreeFileLines(files, level) ==
    PushRange([i \in 1..Len(files) |->
                  IF TreeRecognized(files[i].name)
                  THEN <<Run("tree", 4 * (level + 1) + 2 + Len(files[i].name), files[i].copies, 0)>>
                  ELSE <<>>],
              1, Len(files))

RECURSIVE TreeLines(_, _, _, _)
\* the lines os.walk contributes from directory d down
TreeLines(tree, d, level, depth) ==
    IF level >= depth THEN <<>>
    ELSE PushAll(PushAll(<<Run("tree", 4 * level + 2 + Len(tree[d].name) + 1, 1, 0)>>,
                         TreeFileLines(SortFiles(tree[d].files), level)),
                 LET ds == SortDirs(tree, NotIgnored(tree, Children(tree, d)))
                 IN  PushRange([i \in 1..Len(ds) |-> TreeLines(tree, ds[i], level + 1, depth)],
                               1, Len(ds)))


GenerateTree(tree, depth) == Join(TreeLines(tree, RootDir, 0, depth))

(***************************************************************************)
(* PayloadBudgeter                                                         *)
(***************************************************************************)
RECURSIVE LanguagesItemsLen(_)
LanguagesItemsLen(stats) ==
    IF stats = <<>> THEN 0
    ELSE Len(Head(stats)[1]) + 4 + Digits(Head(stats)[2])
         + (IF Len(stats) > 1 THEN 2 ELSE 0) + LanguagesItemsLen(Tail(stats))

\* len(json.dumps(summary["languages"]))
LanguagesJsonLen(stats) == 2 + LanguagesItemsLen(stats)

RECURSIVE DepsItemLines(_)
DepsItemLines(links) ==
    IF links = <<>> THEN <<>>
    ELSE PushAll(<<Line("deps", 3),
                   Line("deps", 17 + Len(Head(links).source)),
                   Line("deps", 17 + Len(Head(links).target)),
                   Line("deps", 22),
                   Line("deps", 13 + Len(Head(links).raw)),
                   Line("deps", IF Len(links) > 1 THEN 4 ELSE 3)>>,
                 DepsItemLines(Tail(links)))

\* json.dumps(dep_links, indent=2)
DepsJson(links) ==
    IF links = <<>> THEN <<Line("deps", 2)>>
    ELSE PushAll(PushAll(<<Line("deps", 1)>>, DepsItemLines(links)), <<Line("deps", 1)>>)

\* the header: name, languages, counts, average, tree, dependency list
FullHeader(sm, tree_text) ==
    PushAll(PushAll(PushAll(PushAll(
        <<Line("head", 12 + Len(sm.name)),
          Line("head", 11 + LanguagesJsonLen(sm.languages)),
          Line("head", 7 + Digits(sm.total_files) + 10 + Digits(sm.total_lines)),
          Line("head", 16 + FloatLen(sm.avg_complexity) + 4),
          BlankLine,
          Line("head", 10)>>,
        tree_text),
        <<BlankLine, Line("head", 12)>>),
        DepsJson(sm.dependency_links)),
        <<BlankLine, BlankLine>>)

\* f"REPOSITORY: {name}\nFILES: {total_files}\n\n"
MinimalHeader(sm) ==
    PushAll(<<Line("head", 12 + Len(sm.name)), Line("head", 7 + Digits(sm.total_files))>>,
            <<BlankLine, BlankLine>>)

\* variant: only a header longer than the ceiling is replaced
HeaderOverCeiling(header_len) == MAX_PAYLOAD_CHARS - header_len < 0

\* if remaining <= 0: the header alone uses the ceiling up
HeaderTooLarge(header_len) == MAX_PAYLOAD_CHARS - header_len <= 0

Header(sm, tree_text) ==
    IF HeaderTooLarge(TLen(FullHeader(sm, tree_text))) THEN MinimalHeader(sm)
    ELSE FullHeader(sm, tree_text)

\* any(e in relative_path.lower() for e in ["main", "app", "index", "server"])
IsEntryPoint(rel) == \E e \in ENTRY_POINTS : Contains(Lower(rel), e)

\* the sort key: complexity plus the entry-point bonus
Importance(m) == m.complexity_score + (IF IsEntryPoint(m.relative_path) THEN ENTRY_BONUS ELSE 0)

\* variant: the pairs left in scan order
SortedFilesInScanOrder(metas) == [i \in 1..Len(metas) |-> i]

\* sorted(zip(meta_list, code_parts), key=importance, reverse=True), as indices
SortedFiles(metas) == SortDesc([i \in 1..Len(metas) |-> Importance(metas[i])])

\* sum(len(p) for _, p in sorted_files)
TotalCode(parts) == SumSeq([i \in 1..Len(parts) |-> TLen(parts[i])])

\* variant: the tiered loop is always taken
EverythingFitsNever(total_code, rem) == FALSE

\* total_code <= remaining
EverythingFitsIn(total_code, rem) == total_code <= rem

\* variant: the top and medium caps exchanged
TierCapSwapped(i) ==
    IF i < TOP_RANKS THEN MID_BUDGET ELSE IF i < MID_RANKS THEN TOP_BUDGET ELSE LOW_BUDGET

\* the character cap of rank i (0-based)
TierCap(i) == IF i < TOP_RANKS THEN TOP_BUDGET ELSE IF i < MID_RANKS THEN MID_BUDGET ELSE LOW_BUDGET

\* "\n...(truncated to first 80 lines)...\n"
Elide80Marker == <<BlankLine, Line("elide80", ELIDE80_LEN), BlankLine>>

\* "\n...(truncated)...\n"
TruncMarker == <<BlankLine, ElideLine, BlankLine>>

\* "\n\n...(payload truncated to fit context window)..."
FinalMarker == PushAll(<<BlankLine, BlankLine>>, <<Line("final", FINAL_LEN)>>)

\* the first 80 lines of part, and the marker if it had more
Trimmed(part) ==
    LET lines == Split(part)
        trimmed == Join(TakeLines(lines, LOW_LINES))
    IN  IF NumLines(lines) > LOW_LINES THEN Concat(trimmed, Elide80Marker) ELSE trimmed

\* the part rank i is cut from
TierPart(i, part) == IF i < MID_RANKS THEN part ELSE Trimmed(part)

\* variant: the budget does not look at what is used already
BudgetIgnoresUsed(i, part, rem, usedNow) == Min(Min(TLen(TierPart(i, part)), TierCap(i)), rem)

\* budget = min(len(part), cap, remaining - used)
Budget(i, part, rem, usedNow) == Min(Min(TLen(TierPart(i, part)), TierCap(i)), rem - usedNow)

\* part.split("\n")[0] if part else f"--- FILE: {rel} (content omitted - token limit) ---"
HeaderLine(part, idx, rel) ==
    IF TLen(part) > 0 THEN FirstLine(Split(part))
    ELSE Run("hdr", 46 + Len(rel), 1, idx)

\* variant: a cut part without "...(truncated)..." after it
PieceUnmarked(part, budget, idx, rel) ==
    IF budget <= 0 THEN Concat(<<HeaderLine(part, idx, rel)>>, PushAll(<<BlankLine>>, <<BlankLine>>))
    ELSE TakeChars(part, budget)

\* the piece appended to final_parts for a part with this budget
Piece(part, budget, idx, rel) ==
    IF budget <= 0 THEN Concat(<<HeaderLine(part, idx, rel)>>, PushAll(<<BlankLine>>, <<BlankLine>>))
    ELSE IF TLen(part) > budget THEN Concat(TakeChars(part, budget), TruncMarker)
    ELSE TakeChars(part, budget)

\* variant: used grows by the budget only, the marker is not counted
UsedByBudget(part, budget, idx, rel) ==
    IF budget <= 0 THEN HeaderLine(part, idx, rel).n + 1
    ELSE Min(budget, TLen(part))

\* variant: a first-line-only piece is not counted
UsedByContentOnly(part, budget, idx, rel) ==
    IF budget <= 0 THEN 0
    ELSE TLen(Piece(part, budget, idx, rel))

\* what the piece adds to used
UsedBy(part, budget, idx, rel) ==
    IF budget <= 0 THEN HeaderLine(part, idx, rel).n + 1
    ELSE TLen(Piece(part, budget, idx, rel))

\* variant: no final safety check
FinalCheckKeepsAll(p) == p

\* the final safety check
FinalCheck(p) ==
    IF TLen(p) > MAX_PAYLOAD_CHARS THEN Concat(TakeChars(p, MAX_PAYLOAD_CHARS), FinalMarker)
    ELSE p

(***************************************************************************)
(* scan_and_read as a state machine.  pc is the position in the function:  *)
(* "scan" (the os.walk loop), "budget" (the per-rank loop), "final" (the   *)
(* join and safety check), "done" (returned).                              *)
(***************************************************************************)
NoSummary == [name |-> ""]

Result == [payload |-> payload, files |-> meta_list, summary |-> summary]

Fresh ==
    /\ pc = "scan"
    /\ todo = <<RootDir>>
    /\ pending = <<>>
    /\ meta_list = <<>>
    /\ code_parts = <<>>
    /\ lang_stats = <<>>
    /\ totals = [lines |-> 0, bytes |-> 0]
    /\ summary = NoSummary
    /\ payload = EmptyText
    /\ remaining = 0
    /\ sorted_files = <<>>
    /\ used = 0
    /\ budgets = <<>>
    /\ final_parts = <<>>
    /\ assembled = EmptyText

\* the file the walk is at, and its path relative to the root
CurFile == Head(pending).file

CurRel == JoinPath(RelDir(fs, Head(pending).dir), CurFile.name)

\* os.walk yields the next directory: prune dirs, list its files sorted
WalkDir ==
    /\ pc = "scan" /\ pending = <<>> /\ todo # <<>>
    /\ LET d == Head(todo)
           files == SortFiles(fs[d].files)
       IN  /\ todo' = ScanDirs(fs, d, cfg.include_tests) \o Tail(todo)
           /\ pending' = [i \in 1..Len(files) |-> [dir |-> d, file |-> files[i]]]
    /\ UNCHANGED <<fs, cfg, pc, meta_list, code_parts, lang_stats, totals, summary, payload,
                   remaining, sorted_files, used, budgets, final_parts, assembled, scanNo, prev,
                   response, events, stream>>

\* if len(meta_list) >= self.max_files: break
CapBreak ==
    /\ pc = "scan" /\ pending # <<>>
    /\ CapReached(Len(meta_list), cfg.max_files)
    /\ pending' = <<>>
    /\ UNCHANGED <<fs, cfg, pc, todo, meta_list, code_parts, lang_stats, totals, summary, payload,
                   remaining, sorted_files, used, budgets, final_parts, assembled, scanNo, prev,
                   response, events, stream>>

\* unsupported extension and not a special filename: continue
SkipUnrecognized ==
    /\ pc = "scan" /\ pending # <<>>
    /\ ~CapReached(Len(meta_list), cfg.max_files)
    /\ ~Recognized(CurFile.name)
    /\ pending' = Tail(pending)
    /\ UNCHANGED <<fs, cfg, pc, todo, meta_list, code_parts, lang_stats, totals, summary, payload,
                   remaining, sorted_files, used, budgets, final_parts, assembled, scanNo, prev,
                   response, events, stream>>

\* st.st_size > 200_000: continue
SkipOversize ==
    /\ pc = "scan" /\ pending # <<>>
    /\ ~CapReached(Len(meta_list), cfg.max_files)
    /\ Recognized(CurFile.name)
    /\ CurFile.fail # "stat"
    /\ Oversize(CurFile.size)
    /\ pending' = Tail(pending)
    /\ UNCHANGED <<fs, cfg, pc, todo, meta_list, code_parts, lang_stats, totals, summary, payload,
                   remaining, sorted_files, used, budgets, final_parts, assembled, scanNo, prev,
                   response, events, stream>>

\* variant: no try/except around the work on one file, the exception ends the scan
ReadErrorFatal ==
    /\ pc = "scan" /\ pending # <<>>
    /\ ~CapReached(Len(meta_list), cfg.max_files)
    /\ Recognized(CurFile.name)
    /\ \/ CurFile.fail = "stat"
       \/ CurFile.fail = "open" /\ ~Oversize(CurFile.size)
    /\ pc' = "failed"
    /\ UNCHANGED <<fs, cfg, todo, pending, meta_list, code_parts, lang_stats, totals, summary, payload,
                   remaining, sorted_files, used, budgets, final_parts, assembled, scanNo, prev,
                   response, events, stream>>

\* fp.stat() or open().read() raises: logged, next file
ReadError ==
    /\ pc = "scan" /\ pending # <<>>
    /\ ~CapReached(Len(meta_list), cfg.max_files)
    /\ Recognized(CurFile.name)
    /\ \/ CurFile.fail = "stat"
       \/ CurFile.fail = "open" /\ ~Oversize(CurFile.size)
    /\ pending' = Tail(pending)
    /\ UNCHANGED <<fs, cfg, pc, todo, meta_list, code_parts, lang_stats, totals, summary, payload,
                   remaining, sorted_files, used, budgets, final_parts, assembled, scanNo, prev,
                   response, events, stream>>

\* datetime.fromtimestamp(st.st_mtime) raises inside FileNodeInfo(...): the
\* counters above it are already updated, nothing is appended
LateError ==
    /\ pc = "scan" /\ pending # <<>>
    /\ ~CapReached(Len(meta_list), cfg.max_files)
    /\ Recognized(CurFile.name)
    /\ CurFile.fail = "mtime" /\ ~Oversize(CurFile.size)
    /\ LET lns == Split(ToText(CurFile.content))
       IN  /\ lang_stats' = Bump(lang_stats, LanguageOf(CurFile.name), NumLines(lns))
           /\ totals' = [lines |-> totals.lines + NumLines(lns), bytes |-> totals.bytes + CurFile.size]
    /\ pending' = Tail(pending)
    /\ UNCHANGED <<fs, cfg, pc, todo, meta_list, code_parts, summary, payload,
                   remaining, sorted_files, used, budgets, final_parts, assembled, scanNo, prev,
                   response, events, stream>>

\* the body of the try block for a file that is read
AcceptFile ==
    /\ pc = "scan" /\ pending # <<>>
    /\ ~CapReached(Len(meta_list), cfg.max_files)
    /\ Recognized(CurFile.name)
    /\ CurFile.fail = "none" /\ ~Oversize(CurFile.size)
    /\ LET f == CurFile
           rel == CurRel
           lns == Split(ToText(f.content))
           cx == Score(f.content, ExtOf(f.name))
       IN  /\ \E imports \in SetOrders(Range(Matches(f.found, ExtOf(f.name)))) :
                 meta_list' = Append(meta_list, FileNodeInfo(rel, f, lns, imports, cx))
           /\ lang_stats' = Bump(lang_stats, LanguageOf(f.name), NumLines(lns))
           /\ totals' = [lines |-> totals.lines + NumLines(lns), bytes |-> totals.bytes + f.size]
           /\ code_parts' = Append(code_parts,
                                   CodePart(Len(meta_list) + 1, rel, LanguageOf(f.name),
                                            NumLines(lns), cx, Excerpt(lns)))
    /\ pending' = Tail(pending)
    /\ UNCHANGED <<fs, cfg, pc, todo, summary, payload,
                   remaining, sorted_files, used, budgets, final_parts, assembled, scanNo, prev,
                   response, events, stream>>

\* after the walk: links, summary, tree, header, remaining, ranking
Summarize ==
    /\ pc = "scan" /\ pending = <<>> /\ todo = <<>>
    /\ LET sm == Summary(fs[RootDir].name, meta_list, lang_stats, totals, DepLinks(meta_list))
           header == Header(sm, GenerateTree(fs, cfg.depth))
       IN  /\ summary' = sm
           /\ payload' = header
           /\ remaining' = MAX_PAYLOAD_CHARS - TLen(header)
    /\ sorted_files' = SortedFiles(meta_list)
    /\ used' = 0
    /\ pc' = "budget"
    /\ UNCHANGED <<fs, cfg, todo, pending, meta_list, code_parts, lang_stats, totals,
                   budgets, final_parts, assembled, scanNo, prev,
                   response, events, stream>>

\* if total_code <= remaining: final_parts = [p for _, p in sorted_files]
EverythingFits ==
    /\ pc = "budget"
    /\ EverythingFitsIn(TotalCode(code_parts), remaining)
    /\ final_parts' = [i \in 1..Len(sorted_files) |-> code_parts[sorted_files[i]]]
    /\ pc' = "final"
    /\ UNCHANGED <<fs, cfg, todo, pending, meta_list, code_parts, lang_stats, totals, summary,
                   payload, remaining, sorted_files, used, budgets, assembled, scanNo, prev,
                   response, events, stream>>

\* one iteration of the tiered loop, for the rank i = len(final_parts)
BudgetFile ==
    /\ pc = "budget"
    /\ ~EverythingFitsIn(TotalCode(code_parts), remaining)
    /\ Len(final_parts) < Len(sorted_files)
    /\ LET i == Len(final_parts)
           idx == sorted_files[i + 1]
           part == TierPart(i, code_parts[idx])
           budget == Budget(i, code_parts[idx], remaining, used)
           rel == meta_list[idx].relative_path
       IN  /\ final_parts' = Append(final_parts, Piece(part, budget, idx, rel))
           /\ used' = used + UsedBy(part, budget, idx, rel)
           /\ budgets' = Append(budgets, budget)
           /\ pc' = IF i + 1 = Len(sorted_files) THEN "final" ELSE "budget"
    /\ UNCHANGED <<fs, cfg, todo, pending, meta_list, code_parts, lang_stats, totals, summary,
                   payload, remaining, sorted_files, assembled, scanNo, prev,
                   response, events, stream>>

\* payload += "".join(final_parts); the final safety check; return
Finalize ==
    /\ pc = "final"
    /\ assembled' = Concat(payload, ConcatAll(final_parts))
    /\ payload' = FinalCheck(assembled')
    /\ pc' = "done"
    /\ UNCHANGED <<fs, cfg, todo, pending, meta_list, code_parts, lang_stats, totals, summary,
                   remaining, sorted_files, used, budgets, final_parts, scanNo, prev,
                   response, events, stream>>

(***************************************************************************)
(* The endpoints that consume a scan: what the handler does with the       *)
(* (payload, files, summary) scan_and_read returned.  status is the HTTP   *)
(* status of the response, orchestrator whether a NemotronOrchestrator     *)
(* stream is handed the payload.                                           *)
(***************************************************************************)
OPERATIONS == {"preview", "analyze", "query", "mermaid", "security", "onboarding", "cuda"}

\* the handlers with "if not files: raise HTTPException(status_code=400, ...)"
\* followed by a stream of the orchestrator
ORCHESTRATED == {"analyze", "query", "security", "onboarding", "cuda"}

NoResponse == [op |-> "", status |-> 0, detail |-> "", orchestrator |-> FALSE]

\* the response of handler op to the files of its scan
Response(op, files) ==
    IF op \in ORCHESTRATED /\ files = <<>>
    THEN [op |-> op, status |-> 400, detail |-> "No source files found.", orchestrator |-> FALSE]
    ELSE [op |-> op, status |-> 200, detail |-> "", orchestrator |-> op \in ORCHESTRATED]

\* query builds RepositoryProcessor(path, req.max_files): include_tests and
\* depth are the defaults of __init__
ScannedAs(op, c) == op = "query" => (c.include_tests = FALSE /\ c.depth = 6)

\* the handler's steps after scan_and_read returned
Respond ==
    /\ pc = "done"
    /\ \E op \in OPERATIONS :
          /\ ScannedAs(op, cfg)
          /\ response' = Response(op, meta_list)
    /\ pc' = "responded"
    /\ UNCHANGED <<fs, cfg, todo, pending, meta_list, code_parts, lang_stats, totals, summary,
                   payload, remaining, sorted_files, used, budgets, final_parts, assembled,
                   scanNo, prev, events, stream>>

(***************************************************************************)
(* The event stream of analyze: gen() and _stream_generic.  events is the  *)
(* types of the events yielded so far, stream where the generator stands.  *)
(***************************************************************************)
\* chunks the model lets the completions stream deliver
MaxChunks == 2

\* the frame of the scan and of the response
ScanFrame ==
    UNCHANGED <<fs, cfg, pc, todo, pending, meta_list, code_parts, lang_stats, totals, summary,
                payload, remaining, sorted_files, used, budgets, final_parts, assembled,
                scanNo, prev, response>>

\* analyze returned StreamingResponse(gen(), ...)
Streaming == pc = "responded" /\ response.op = "analyze" /\ response.status = 200

\* the events one chunk yields: reasoning_content first, then content
ChunkEvents(reasoning, content) ==
    (IF reasoning THEN <<"thought">> ELSE <<>>) \o (IF content THEN <<"content">> ELSE <<>>)

\* chunks delivered so far: a chunk without a delta or with an empty one yields nothing
Delivered(evs) == Cardinality({i \in 1..Len(evs) : evs[i] = "thought"})
                  + Cardinality({i \in 1..Len(evs) : evs[i] = "content" /\ evs[i - 1] # "thought"})

\* yield metadata
EmitMetadata ==
    /\ Streaming /\ stream = "none"
    /\ events' = Append(events, "metadata")
    /\ stream' = "metadata"
    /\ ScanFrame

\* yield file_list
EmitFileList ==
    /\ Streaming /\ stream = "metadata"
    /\ events' = Append(events, "file_list")
    /\ stream' = "file_list"
    /\ ScanFrame

\* self.client.chat.completions.create(...) returns the stream
CreateStream ==
    /\ Streaming /\ stream = "file_list"
    /\ stream' = "chunks"
    /\ UNCHANGED events
    /\ ScanFrame

\* for chunk in stream: thought and content events of one chunk
StreamChunk ==
    /\ Streaming /\ stream = "chunks"
    /\ Delivered(events) < MaxChunks
    /\ \E reasoning, content \in BOOLEAN :
          /\ reasoning \/ content
          /\ events' = events \o ChunkEvents(reasoning, content)
    /\ UNCHANGED stream
    /\ ScanFrame

\* variant: done yielded in a finally clause, after an error too
StreamDoneFinally ==
    /\ Streaming
    /\ \/ stream = "chunks"
       \/ stream = "ended" /\ events[Len(events)] = "error"
    /\ events' = Append(events, "done")
    /\ stream' = "ended"
    /\ ScanFrame

\* the stream is exhausted: yield done
StreamDone ==
    /\ Streaming /\ stream = "chunks"
    /\ events' = Append(events, "done")
    /\ stream' = "ended"
    /\ ScanFrame

\* create or the iteration raises: except Exception yields error
StreamError ==
    /\ Streaming /\ stream \in {"file_list", "chunks"}
    /\ events' = Append(events, "error")
    /\ stream' = "ended"
    /\ ScanFrame

\* the client goes away while the generator is suspended: the generator is
\* closed (GeneratorExit is not an Exception), nothing more is yielded
Disconnect ==
    /\ Streaming /\ stream \in {"metadata", "file_list", "chunks"}
    /\ stream' = "closed"
    /\ UNCHANGED events
    /\ ScanFrame

(***************************************************************************)
(* The repositories and configurations explored                            *)
(***************************************************************************)
\* the largest number of equal files in one repository
MaxUniform == 17

\* scans made of the same unchanged directory
NumScans == 2

CRun(kw, n, ind, c) == [kw |-> kw, n |-> n, ind |-> ind, c |-> c]

\* a file text of nIf branching lines and nPlain other lines
Body(nIf, nPlain, width, ind) ==
    SelectSeq(<<CRun("if ", width, ind, nIf), CRun("", width, 0, nPlain)>>, LAMBDA r : r.c > 0)

\* the empty file
NoText == <<CRun("", 0, 0, 1)>>

File(name, content, found) ==
    [name |-> name, size |-> TLen(ToText(content)), content |-> content, found |-> found,
     fail |-> "none", copies |-> 1]

Failing(f, how) == [f EXCEPT !.fail = how]

\* copies files over the size ceiling
Huge(name, copies) ==
    [name |-> name, size |-> MAX_FILE_BYTES + 1, content |-> NoText, found |-> <<>>,
     fail |-> "none", copies |-> copies]

Dir(name, parent, files) == [name |-> name, parent |-> parent, files |-> files]

RECURSIVE Pad(_)
Pad(k) == IF k = 0 THEN "" ELSE IF k = 1 THEN "z" ELSE Pad(k \div 2) \o Pad(k - k \div 2)

\* a name of k characters ending in .py
LongName(k) == Pad(k - 3) \o ".py"

Digit(i) == SubSeq("0123456789", i + 1, i + 1)

\* n files f01.py, f02.py, ... of the same text
Uniform(n, content) == {File("f" \o Digit(i \div 10) \o Digit(i % 10) \o ".py", content, <<>>) : i \in 1..n}

\* 200,000 bytes exactly
AtCeiling == <<CRun("", 999, 0, 199), CRun("", 1000, 0, 1)>>

MainPy == File("main.py", Body(10, 40, 30, 8), <<"os">>)

UtilsPy == File("utils.py", Body(1, 9, 20, 4), <<"main">>)

SmallRepos ==
    { <<Dir("proj", 0, {MainPy, UtilsPy, File("README.md", Body(0, 5, 40, 0), <<>>)})>>,
      <<Dir("two", 0, {File("main.py", Body(3, 7, 20, 4), <<"utils", "helpers", "utils">>),
                       File("utils.py", Body(1, 9, 20, 4), <<>>),
                       File("helpers.py", Body(0, 4, 20, 0), <<"main">>)})>>,
      <<Dir("self", 0, {File("app.py", Body(2, 8, 20, 4), <<"app">>)}),
        Dir("lib", 1, {File("app.py", Body(1, 3, 20, 4), <<"app", "missing">>)})>>,
      <<Dir("tree", 0, {MainPy, File("Makefile", Body(0, 3, 10, 0), <<>>),
                        File("makefile", Body(0, 3, 10, 0), <<>>),
                        File("notes.bin", Body(0, 3, 10, 0), <<>>)}),
        Dir("src", 1, {File("core.py", Body(5, 5, 20, 12), <<"main">>),
                       File("Index.JS", Body(2, 2, 20, 4), <<"./core">>)}),
        Dir("deep", 2, {File("d.py", Body(0, 2, 10, 0), <<>>)}),
        Dir("tests", 1, {File("test_core.py", Body(1, 1, 10, 4), <<"core">>)}),
        Dir("node_modules", 1, {File("x.js", Body(0, 1, 10, 0), <<>>)}),
        Dir("Specs", 1, {File("s.py", Body(0, 1, 10, 0), <<>>)})>>,
      <<Dir("sizes", 0, {File("a.py", AtCeiling, <<>>), File("b.py", NoText, <<>>),
                         Huge("huge.py", 1), File("long.py", Body(50, 200, 60, 44), <<>>),
                         File("x.c", Body(6, 0, 12, 2), <<"x.h">>),
                         File("x.h", Body(0, 3, 12, 0), <<>>)})>>,
      <<Dir("errs", 0, {Failing(File("a.py", Body(1, 1, 10, 0), <<>>), "stat"),
                        Failing(File("b.py", Body(1, 2, 10, 0), <<>>), "open"),
                        Failing(File("c.py", Body(1, 3, 10, 0), <<>>), "mtime"),
                        File("d.py", Body(1, 4, 10, 0), <<"c">>)})>>,
      <<Dir("tests", 0, {UtilsPy}),
        Dir("vendor", 1, {File("v.py", Body(0, 2, 10, 0), <<>>)}),
        Dir("pkg", 1, {File("p.py", Body(1, 2, 10, 4), <<"utils">>)}),
        Dir("contest", 3, {File("c.py", Body(0, 3, 10, 0), <<>>)})>>,
      <<Dir("hub", 0, {File("hub.py", Body(1, 3, 10, 4), <<>>),
                       File("f1.py", Body(0, 2, 10, 0), <<"hub">>),
                       File("f2.py", Body(0, 2, 10, 0), <<"hub">>),
                       File("f3.py", Body(0, 2, 10, 0), <<"hub">>),
                       File("f4.py", Body(0, 2, 10, 0), <<"hub">>),
                       File("f5.py", Body(0, 2, 10, 0), <<"hub">>),
                       File("f6.py", Body(0, 2, 10, 0), <<"hub", "f1">>),
                       File("lone.py", Body(0, 2, 10, 0), <<"os">>)})>>,
      <<Dir("empty", 0, {})>>,
      <<Dir("none", 0, {File("a.out", NoText, <<>>), Huge("big.json", 2)})>> }

\* repositories whose excerpts exceed the budget
BigRepos ==
    { <<Dir("big", 0, {File("main.py", Body(1, 9, 20, 4), <<>>),
                       File("big1.py", Body(100, 99, 1000, 4), <<>>),
                       File("big2.py", Body(20, 179, 1000, 4), <<>>)})>> }
    \cup { <<Dir("many", 0, Uniform(n, Body(10, 90, 650, 4)))>> : n \in {6, 7} }
    \cup { <<Dir("flat", 0, Uniform(n, Body(10, 90, 210, 4)))>> : n \in {MaxUniform - 1, MaxUniform} }
    \cup { <<Dir("mixed", 0, Uniform(MaxUniform - 1, Body(10, 90, 210, 4))
                             \cup {File("server.py", Body(0, 100, 300, 0), <<>>)})>> }
    \cup { <<Dir("squeeze", 0, Uniform(4, Body(10, 90, 650, 4))
                               \cup {File("main.py", Body(0, 100, 597, 0), <<>>)})>> }

\* repositories whose tree fills the header: copies files over the size ceiling
BulkRepos ==
    { <<Dir("bulk", 0, {File("one.py", Body(10, 90, 100, 4), <<>>), Huge(LongName(93), c)})>> :
        c \in {2950, 2998, 3000} }
    \cup { <<Dir("bulk", 0, {File("one.py", Body(10, 90, 100, 4), <<>>), Huge(LongName(93), 2998),
                             Huge(LongName(51), 1)})>> }
    \cup { <<Dir("half", 0, {File("one.py", Body(10, 189, 1000, 4), <<>>),
                             File("two.py", Body(0, 20, 10, 0), <<>>),
                             Huge(LongName(93), 1500)})>> }

Repos == SmallRepos \cup BigRepos \cup BulkRepos

\* RepositoryProcessor(root, max_files, include_tests, depth)
Configs ==
    [max_files : {1, 2, 120}, include_tests : BOOLEAN, depth : {1, 6}]

Init ==
    /\ fs \in Repos
    /\ cfg \in Configs
    /\ scanNo = 1
    /\ prev = NoSummary
    /\ response = NoResponse
    /\ events = <<>>
    /\ stream = "none"
    /\ Fresh

\* the same directory, unchanged, is scanned again
Rescan ==
    /\ pc = "done" /\ scanNo < NumScans
    /\ prev' = Result
    /\ scanNo' = scanNo + 1
    /\ pc' = "scan"
    /\ todo' = <<RootDir>>
    /\ pending' = <<>>
    /\ meta_list' = <<>>
    /\ code_parts' = <<>>
    /\ lang_stats' = <<>>
    /\ totals' = [lines |-> 0, bytes |-> 0]
    /\ summary' = NoSummary
    /\ payload' = EmptyText
    /\ remaining' = 0
    /\ sorted_files' = <<>>
    /\ used' = 0
    /\ budgets' = <<>>
    /\ final_parts' = <<>>
    /\ assembled' = EmptyText
    /\ UNCHANGED <<fs, cfg, response, events, stream>>

Next ==
    \/ WalkDir
    \/ CapBreak
    \/ SkipUnrecognized
    \/ SkipOversize
    \/ ReadError
    \/ LateError
    \/ AcceptFile
    \/ Summarize
    \/ EverythingFits
    \/ BudgetFile
    \/ Finalize
    \/ Rescan
    \/ EmitMetadata
    \/ EmitFileList
    \/ CreateStream
    \/ StreamChunk
    \/ StreamDone
    \/ StreamError
    \/ Disconnect
    \/ Respond

Spec == Init /\ [][Next]_vars

(***************************************************************************)
(* Properties of scan_and_read                                             *)
(***************************************************************************)
\* scan_and_read has returned
Returned == pc = "done"

\* the summary of the current scan has been built
Summarized == pc \in {"budget", "final", "done"}

\* the scan took the else branch of "if total_code <= remaining"
Tiered == budgets # <<>>

\* the relative paths of the accepted records
Paths == {meta_list[i].relative_path : i \in 1..Len(meta_list)}

\* C1: the returned payload is at most MAX_PAYLOAD_CHARS plus the length of the
\* final marker; an assembled string over 300,000 characters is cut to exactly
\* 300,000 and the final marker appended once; otherwise it is returned unchanged.
C1_PayloadCeiling ==
    Returned =>
        /\ TLen(payload) <= MAX_PAYLOAD_CHARS + TLen(FinalMarker)
        /\ TLen(assembled) > MAX_PAYLOAD_CHARS =>
              /\ TLen(payload) = MAX_PAYLOAD_CHARS + TLen(FinalMarker)
              /\ TakeChars(payload, MAX_PAYLOAD_CHARS) = TakeChars(assembled, MAX_PAYLOAD_CHARS)
              /\ CountLines(payload, "final") = 1
        /\ TLen(assembled) <= MAX_PAYLOAD_CHARS =>
              /\ payload = assembled
              /\ CountLines(payload, "final") = 0

\* a scan returned whose assembled string was over the ceiling
C1_Witness == Returned /\ TLen(assembled) > MAX_PAYLOAD_CHARS

\* C2: at every point of a scan the number of accepted records is at most
\* max_files, over the whole tree, and every accepted record has
\* size_bytes <= 200,000.
C2_CapAndSize ==
    /\ Len(meta_list) <= cfg.max_files
    /\ \A i \in 1..Len(meta_list) : meta_list[i].size_bytes <= MAX_FILE_BYTES

\* the cap is met in a second directory with files still to visit and a record of
\* exactly 200,000 bytes or a skipped larger file
C2_Witness ==
    /\ Len(meta_list) = cfg.max_files
    /\ pending # <<>>
    /\ \/ Head(pending).dir # RootDir
       \/ \E i \in 1..Len(meta_list) : meta_list[i].size_bytes = MAX_FILE_BYTES

\* C3: every dependency link has source # target and both endpoints are paths
\* of returned records; an import that resolves to no record produces no link.
C3_LinksWellFormed ==
    Summarized =>
        /\ \A k \in 1..Len(summary.dependency_links) :
              LET l == summary.dependency_links[k]
              IN  l.source # l.target /\ l.source \in Paths /\ l.target \in Paths
        /\ \A i \in 1..Len(meta_list) : \A n \in 1..Len(meta_list[i].imports) :
              LET imp == meta_list[i].imports[n]
                  all_files == [j \in 1..Len(meta_list) |-> meta_list[j].relative_path]
              IN  ResolveImport(imp, all_files) = "" =>
                     ~\E k \in 1..Len(summary.dependency_links) :
                          /\ summary.dependency_links[k].source = meta_list[i].relative_path
                          /\ summary.dependency_links[k].raw = imp

\* a summary with a link, an import resolving to its own file and an import
\* resolving to nothing
C3_Witness ==
    /\ Returned
    /\ summary.dependency_links # <<>>
    /\ LET all_files == [j \in 1..Len(meta_list) |-> meta_list[j].relative_path]
       IN  /\ \E i \in 1..Len(meta_list) : \E n \in 1..Len(meta_list[i].imports) :
                 ResolveImport(meta_list[i].imports[n], all_files) = meta_list[i].relative_path
           /\ \E i \in 1..Len(meta_list) : \E n \in 1..Len(meta_list[i].imports) :
                 ResolveImport(meta_list[i].imports[n], all_files) = ""

\* the importance of the file at rank i (0-based) of the current scan
RankImportance(i) == Importance(meta_list[sorted_files[i + 1]])

\* the length of the piece emitted for rank i
Emitted(i) == TLen(final_parts[i + 1])

\* the excerpt rank i is cut from: the part, or its first 80 lines from rank 15 on
RankExcerpt(i) ==
    LET part == code_parts[sorted_files[i + 1]]
    IN  IF i < MID_RANKS THEN part ELSE Trimmed(part)

C5_HeaderLineKept ==
    Tiered =>
        \A i \in 0..(Len(final_parts) - 1) :
            budgets[i + 1] <= 0 =>
                /\ FirstLine(final_parts[i + 1]).k = "hdr"
                /\ FirstLine(final_parts[i + 1]).f = sorted_files[i + 1]

\* a file whose budget was <= 0
C5_Witness == Returned /\ \E i \in 1..Len(budgets) : budgets[i] <= 0

\* C6 as stated: a second scan of the same unchanged directory with the same
\* configuration returns the same files and the same summary as the first.
C6_Deterministic ==
    (Returned /\ scanNo > 1) => (meta_list = prev.files /\ summary = prev.summary)

\* a second scan returned, of a repository with a file importing two modules
C6_Witness ==
    /\ Returned /\ scanNo > 1
    /\ \E i \in 1..Len(meta_list) : Len(meta_list[i].imports) > 1

\* the file of the scanned tree with this relative path
FileAt(rel) ==
    CHOOSE f \in UNION {fs[d].files : d \in 1..Len(fs)} :
        \E d \in 1..Len(fs) : f \in fs[d].files /\ JoinPath(RelDir(fs, d), f.name) = rel

\* min((density*0.4 + nesting*0.35 + length*0.25)*100, 100), each factor
\* clamped to [0,1], for a text of total lines
ClampedScore(content, ext) ==
    LET total == NumLines(content)
        clamp(x) == Max(0, Min(x, 10000))
        density == clamp((BranchCount(content, Keywords(ext)) * 10000) \div Max(total, 1))
        nesting == clamp(MaxIndent(content) * 250)
        length == clamp(Log10E4(Max(total, 1)) \div 4)
    IN  Min((40 * density + 35 * nesting + 25 * length + 500) \div 1000, 1000)

\* C7: the complexity score of every record is in [0,100], is the clamped
\* weighted sum of density, nesting and length, and is 0 for empty content.
C7_ScoreRange ==
    \A i \in 1..Len(meta_list) :
        LET f == FileAt(meta_list[i].relative_path)
            cx == meta_list[i].complexity_score
        IN  /\ cx >= 0 /\ cx <= 1000
            /\ cx = ClampedScore(f.content, meta_list[i].extension)
            /\ f.content = NoText => cx = 0

\* records of an empty file and of a file indented deeper than 40 columns
C7_Witness ==
    /\ \E i \in 1..Len(meta_list) : FileAt(meta_list[i].relative_path).content = NoText
    /\ \E i \in 1..Len(meta_list) :
          MaxIndent(FileAt(meta_list[i].relative_path).content) > 40

\* the scan position of the record a hotspot names
ScanIndex(h) == CHOOSE i \in 1..Len(meta_list) : meta_list[i].relative_path = h.file

\* C8: hotspots has min(5, number of files) entries, sorted by complexity
\* descending, holding the highest scores, equal scores in scan order.
C8_Hotspots ==
    Summarized =>
        LET hot == summary.hotspots
            chosen == {ScanIndex(hot[p]) : p \in 1..Len(hot)}
        IN  /\ Len(hot) = Min(HOTSPOT_COUNT, Len(meta_list))
            /\ \A p \in 1..Len(hot) :
                  /\ hot[p].file \in Paths
                  /\ hot[p].complexity = meta_list[ScanIndex(hot[p])].complexity_score
            /\ \A p, q \in 1..Len(hot) :
                  p < q => /\ hot[p].complexity >= hot[q].complexity
                           /\ hot[p].complexity = hot[q].complexity
                                 => ScanIndex(hot[p]) < ScanIndex(hot[q])
            /\ \A i \in (1..Len(meta_list)) \ chosen : \A p \in 1..Len(hot) :
                  /\ meta_list[i].complexity_score <= hot[p].complexity
                  /\ meta_list[i].complexity_score = hot[p].complexity => ScanIndex(hot[p]) < i

\* more than five records, scores that differ, and a tie at the cut
C8_Witness ==
    /\ Returned /\ Len(meta_list) > HOTSPOT_COUNT
    /\ \E i, j \in 1..Len(meta_list) : meta_list[i].complexity_score # meta_list[j].complexity_score
    /\ \E i \in 1..Len(meta_list) :
          /\ meta_list[i].relative_path \notin {summary.hotspots[p].file : p \in 1..Len(summary.hotspots)}
          /\ meta_list[i].complexity_score = summary.hotspots[Len(summary.hotspots)].complexity

\* one record was accepted and its excerpt is longer than the remaining budget
SingleOverBudget ==
    Returned /\ Len(meta_list) = 1 /\ TLen(code_parts[1]) > remaining

\* a line of one of the three truncation markers
HasMarker(t) == HasLine(t, "elide") \/ HasLine(t, "elide80") \/ HasLine(t, "final")

\* C9 as stated: a single file whose excerpt exceeds the remaining budget gives
\* a payload with a truncation marker and of at most MAX_PAYLOAD_CHARS.
C9_AsStated ==
    SingleOverBudget => (HasMarker(payload) /\ TLen(payload) <= MAX_PAYLOAD_CHARS)

\* C9: a single file whose excerpt exceeds the remaining budget gives a payload
\* with a truncation marker and of at most MAX_PAYLOAD_CHARS plus the length of
\* the final marker.
C9_SingleFile ==
    SingleOverBudget =>
        /\ HasMarker(payload)
        /\ TLen(payload) <= MAX_PAYLOAD_CHARS + TLen(FinalMarker)

\* the single file's cut excerpt and its marker pushed the payload over the ceiling
C9_Witness == SingleOverBudget /\ TLen(payload) > MAX_PAYLOAD_CHARS

\* the characters used before rank i
UsedBefore(i) == SumSeq([j \in 1..i |-> TLen(final_parts[j])])

\* C10: sorted_files is the records by importance descending, ties in scan
\* order; in the tiered path the budget of rank i is cut by the cap of its
\* position (ranks 0-4, 5-14, 15 and up, the last pre-truncated to 80 lines).
C10_RankTiers ==
    /\ Summarized =>
          /\ Len(sorted_files) = Len(meta_list)
          /\ \A i \in 1..Len(meta_list) : \E p \in 1..Len(sorted_files) : sorted_files[p] = i
          /\ \A p, q \in 1..Len(sorted_files) :
                p < q => /\ RankImportance(p - 1) >= RankImportance(q - 1)
                         /\ RankImportance(p - 1) = RankImportance(q - 1)
                               => sorted_files[p] < sorted_files[q]
    /\ Tiered =>
          \A i \in 0..(Len(final_parts) - 1) :
              LET part == code_parts[sorted_files[i + 1]]
                  left == remaining - UsedBefore(i)
              IN  /\ i < TOP_RANKS => budgets[i + 1] = Min(Min(TLen(part), TOP_BUDGET), left)
                  /\ (i >= TOP_RANKS /\ i < MID_RANKS) =>
                        budgets[i + 1] = Min(Min(TLen(part), MID_BUDGET), left)
                  /\ i >= MID_RANKS =>
                        /\ budgets[i + 1] = Min(Min(TLen(Trimmed(part)), LOW_BUDGET), left)
                        /\ NumLines(Trimmed(part)) <= LOW_LINES + 2
                        /\ Emitted(i) <= LOW_BUDGET + TLen(TruncMarker)

\* more than 15 files of one importance went through the tiers
C10_Witness ==
    /\ Returned /\ Len(budgets) > MID_RANKS
    /\ \A i, j \in 1..Len(meta_list) : Importance(meta_list[i]) = Importance(meta_list[j])
    /\ budgets[1] > MID_BUDGET
    /\ budgets[TOP_RANKS + 1] = MID_BUDGET
    /\ budgets[MID_RANKS + 1] = LOW_BUDGET

\* a handler has answered
Responded == pc = "responded"

\* C11 as stated: whenever the scan accepted zero files, the operation ends in
\* an outcome distinct from a successful response and the orchestrator is not
\* invoked.
C11_EmptyResult ==
    (Responded /\ meta_list = <<>>) => (response.status # 200 /\ ~response.orchestrator)

\* an operation answered a scan that accepted zero files
C11_Witness == Responded /\ meta_list = <<>> /\ response.op \in ORCHESTRATED

\* the directory holding the file with this relative path
DirOf(rel) ==
    CHOOSE d \in 1..Len(fs) : \E f \in fs[d].files : JoinPath(RelDir(fs, d), f.name) = rel

RECURSIVE DirsAbove(_)
\* the directories below the scan root on the way down to d, d included
DirsAbove(d) == IF d = RootDir THEN {} ELSE {d} \cup DirsAbove(fs[d].parent)

\* the name contains "test" or "spec", case-insensitively
TestLike(name) == Contains(Lower(name), "test") \/ Contains(Lower(name), "spec")

\* a file the scan keeps when it meets it: recognized, readable, not too large
Acceptable(f) == Recognized(f.name) /\ f.fail = "none" /\ f.size <= MAX_FILE_BYTES

\* C12: no record lies under a directory below the root whose name is in the
\* deny-list; with include_tests false none lies under a directory whose name
\* contains "test" or "spec" in any case; with include_tests true those
\* directories are scanned like any other.
C12_PrunedDirs ==
    /\ \A i \in 1..Len(meta_list) : \A d \in DirsAbove(DirOf(meta_list[i].relative_path)) :
          /\ fs[d].name \notin IGNORE_PATHS
          /\ ~cfg.include_tests => ~TestLike(fs[d].name)
    /\ (Returned /\ Len(meta_list) < cfg.max_files) =>
          \A d \in 1..Len(fs) : \A f \in fs[d].files :
              ( /\ Acceptable(f)
                /\ \A a \in DirsAbove(d) :
                      /\ fs[a].name \notin IGNORE_PATHS
                      /\ ~cfg.include_tests => ~TestLike(fs[a].name) )
              => JoinPath(RelDir(fs, d), f.name) \in Paths

\* a scan with tests included returned a record under a test-like directory of a
\* tree that also has a deny-listed directory
C12_Witness ==
    /\ Returned /\ cfg.include_tests
    /\ \E i \in 1..Len(meta_list) : \E d \in DirsAbove(DirOf(meta_list[i].relative_path)) :
          TestLike(fs[d].name)
    /\ \E d \in 2..Len(fs) : fs[d].name \in IGNORE_PATHS /\ \E f \in fs[d].files : Acceptable(f)

\* the relative paths of the records, in scan order
AllRels == [j \in 1..Len(meta_list) |-> meta_list[j].relative_path]

\* the paths of the records other than the one at path self
OtherRels(self) == SelectSeq(AllRels, LAMBDA f : f # self)

\* some link of the summary goes from source to target for the raw import imp
Linked(source, target, imp) ==
    \E k \in 1..Len(summary.dependency_links) :
        /\ summary.dependency_links[k].source = source
        /\ summary.dependency_links[k].target = target
        /\ summary.dependency_links[k].raw = imp

\* C14 as stated: each import of a record m is resolved against the paths of the
\* records other than m: if a candidate matches one of them there is a link
\* from m to the first such record, and there is no link only when no candidate
\* matches another record; a match on m's own path suppresses nothing.
C14_OthersOnly ==
    Summarized =>
        \A i \in 1..Len(meta_list) : \A n \in 1..Len(meta_list[i].imports) :
            LET self == meta_list[i].relative_path
                imp == meta_list[i].imports[n]
                target == ResolveImport(imp, OtherRels(self))
            IN  /\ target # "" => Linked(self, target, imp)
                /\ target = "" => ~\E k \in 1..Len(summary.dependency_links) :
                                      /\ summary.dependency_links[k].source = self
                                      /\ summary.dependency_links[k].raw = imp

\* an import whose first match is the importing file while another record matches too
C14_Witness ==
    /\ Summarized
    /\ \E i \in 1..Len(meta_list) : \E n \in 1..Len(meta_list[i].imports) :
          LET self == meta_list[i].relative_path
              imp == meta_list[i].imports[n]
          IN  /\ ResolveImport(imp, AllRels) = self
              /\ ResolveImport(imp, OtherRels(self)) # ""

\* the 1-based position of record j in an order of the records
PositionIn(order, j) == CHOOSE p \in 1..Len(order) : order[p] = j

\* the importance keys of the records with record j's raised by d
RaisedKeys(j, d) ==
    [i \in 1..Len(meta_list) |-> Importance(meta_list[i]) + (IF i = j THEN d ELSE 0)]

\* the summary has just been built: ranking done, no rank budgeted yet
JustRanked == pc = "budget" /\ final_parts = <<>>

\* C13: a file of higher importance ranks before a file of lower importance
\* and its tier cap is not smaller; raising one file's importance, the others
\* fixed, never moves it to a later rank or to a tier of smaller cap.
C13_TierMonotone ==
    /\ Summarized =>
          \A p, q \in 1..Len(sorted_files) :
              RankImportance(p - 1) > RankImportance(q - 1) =>
                  (p < q /\ TierCap(p - 1) >= TierCap(q - 1))
    /\ JustRanked =>
          \A j \in 1..Len(meta_list) : \A d \in {1, 25, ENTRY_BONUS} :
              LET before == PositionIn(SortDesc(RaisedKeys(j, 0)), j)
                  after == PositionIn(SortDesc(RaisedKeys(j, d)), j)
              IN  /\ PositionIn(sorted_files, j) = before
                  /\ after <= before
                  /\ TierCap(after - 1) >= TierCap(before - 1)

\* more than 15 files were ranked, one of them of higher importance than a file
\* of the last tier, which a higher score would move into the top tier
C13_Witness ==
    /\ JustRanked /\ Len(sorted_files) > MID_RANKS
    /\ RankImportance(0) > RankImportance(MID_RANKS)
    /\ LET j == sorted_files[MID_RANKS + 1]
       IN  PositionIn(SortDesc(RaisedKeys(j, ENTRY_BONUS)), j) <= TOP_RANKS

\* the header of the current scan, as Summarize built it
ScanHeader == Header(summary, GenerateTree(fs, cfg.depth))

\* the parts in ranking order
RankedParts == [p \in 1..Len(sorted_files) |-> code_parts[sorted_files[p]]]

\* the files named by the "--- FILE:" lines of a text, in order
HeaderLinesOf(t) ==
    LET hs == SelectSeq(t, LAMBDA r : r.k = "hdr")
    IN  [p \in 1..Len(hs) |-> hs[p].f]

\* C15: when the sum of the excerpt lengths is at most the remaining budget the
\* payload is the header followed by every part whole, in importance order,
\* with no cut, no marker added, and the final check does not cut.
C15_EverythingFits ==
    (Returned /\ TotalCode(code_parts) <= remaining) =>
        /\ payload = Concat(ScanHeader, ConcatAll(RankedParts))
        /\ payload = assembled
        /\ TLen(payload) = TLen(ScanHeader) + TotalCode(code_parts)
        /\ TLen(payload) <= MAX_PAYLOAD_CHARS
        /\ HeaderLinesOf(payload) = sorted_files
        /\ ~HasLine(payload, "final") /\ ~HasLine(payload, "elide80") /\ ~HasLine(payload, "part")
        /\ CountLines(payload, "elide")
              = SumSeq([i \in 1..Len(code_parts) |-> CountLines(code_parts[i], "elide")])

\* everything fitted, for parts whose importance order is not the scan order and
\* one part of more than 60,000 characters
C15_Witness ==
    /\ Returned /\ TotalCode(code_parts) <= remaining
    /\ \E p \in 1..Len(sorted_files) : sorted_files[p] # p
    /\ \E i \in 1..Len(code_parts) : TLen(code_parts[i]) > TOP_BUDGET

\* the text ends with "\n...(truncated)...\n"
EndsWithTruncMarker(t) ==
    /\ Len(t) >= 2
    /\ t[Len(t)].k = "blank" /\ t[Len(t)].c = 1
    /\ t[Len(t) - 1].k = "elide"

\* rank i was given a positive budget smaller than its excerpt
CutShort(i) == budgets[i + 1] > 0 /\ TLen(RankExcerpt(i)) > budgets[i + 1]

\* C16: in the tiered path a rank with a positive budget emits at most cap(i)
\* characters of its excerpt (the first 80 lines from rank 15 on) and at most
\* remaining - used; "...(truncated)..." follows iff the excerpt was cut, and
\* used grows by the whole emitted length, marker included.
C16_TieredPiece ==
    Tiered =>
        /\ used = UsedBefore(Len(final_parts))
        /\ \A i \in 0..(Len(final_parts) - 1) :
              budgets[i + 1] > 0 =>
                  LET excerpt == RankExcerpt(i)
                      budget == budgets[i + 1]
                      kept == Min(budget, TLen(excerpt))
                  IN  /\ kept <= TierCap(i)
                      /\ kept <= remaining - UsedBefore(i)
                      /\ final_parts[i + 1]
                            = IF CutShort(i) THEN Concat(TakeChars(excerpt, budget), TruncMarker)
                              ELSE TakeChars(excerpt, budget)
                      /\ EndsWithTruncMarker(final_parts[i + 1]) <=> CutShort(i)
                      /\ Emitted(i) = kept + (IF CutShort(i) THEN TLen(TruncMarker) ELSE 0)
                      /\ UsedBefore(i + 1) = UsedBefore(i) + Emitted(i)

\* a tiered scan in which one excerpt was cut by its cap, one by what remained,
\* and one with a positive budget was emitted whole
C16_Witness ==
    /\ Returned /\ Tiered
    /\ \E i \in 0..(Len(final_parts) - 1) : CutShort(i) /\ budgets[i + 1] = TierCap(i)
    /\ \E i \in 0..(Len(final_parts) - 1) :
          CutShort(i) /\ budgets[i + 1] = remaining - UsedBefore(i) /\ budgets[i + 1] < TierCap(i)
    /\ \E i \in 0..(Len(final_parts) - 1) : budgets[i + 1] > 0 /\ ~CutShort(i)

\* the header built at lines 473-476, before the test of remaining
ScanFullHeader == FullHeader(summary, GenerateTree(fs, cfg.depth))

\* the payload is still the header alone
HeaderOnly == pc \in {"budget", "final"}

\* C17 as stated: the minimal header replaces the full one iff the full header
\* is longer than MAX_PAYLOAD_CHARS.
C17_AsStated ==
    HeaderOnly =>
        (payload = MinimalHeader(summary) <=> TLen(ScanFullHeader) > MAX_PAYLOAD_CHARS)

\* C17: the minimal header replaces the full one iff the full header has at
\* least MAX_PAYLOAD_CHARS characters (remaining <= 0); a shorter full header is
\* kept; remaining is MAX_PAYLOAD_CHARS minus the length of the header in use.
C17_HeaderReplaced ==
    HeaderOnly =>
        /\ payload = MinimalHeader(summary) <=> TLen(ScanFullHeader) >= MAX_PAYLOAD_CHARS
        /\ TLen(ScanFullHeader) < MAX_PAYLOAD_CHARS => payload = ScanFullHeader
        /\ payload \in {MinimalHeader(summary), ScanFullHeader}
        /\ remaining = MAX_PAYLOAD_CHARS - TLen(payload)

\* a full header of exactly MAX_PAYLOAD_CHARS characters was replaced
C17_Witness ==
    /\ HeaderOnly
    /\ TLen(ScanFullHeader) = MAX_PAYLOAD_CHARS
    /\ payload = MinimalHeader(summary)
    /\ remaining = MAX_PAYLOAD_CHARS - TLen(MinimalHeader(summary))

\* the acceptable files of directory d, by sorted name, as relative paths
AcceptableIn(d) ==
    LET files == SelectSeq(SortFiles(fs[d].files), Acceptable)
    IN  [i \in 1..Len(files) |-> JoinPath(RelDir(fs, d), files[i].name)]

RECURSIVE FlatRange(_, _, _)
\* the sequences ss[lo], ..., ss[hi] one after the other
FlatRange(ss, lo, hi) ==
    IF lo > hi THEN <<>>
    ELSE IF lo = hi THEN ss[lo]
    ELSE LET mid == (lo + hi) \div 2
         IN  FlatRange(ss, lo, mid) \o FlatRange(ss, mid + 1, hi)

RECURSIVE TraversalFrom(_)
\* the acceptable files in the order of a top-down walk from d: the files of d,
\* then each kept subdirectory in sorted order
TraversalFrom(d) ==
    LET subs == ScanDirs(fs, d, cfg.include_tests)
    IN  AcceptableIn(d) \o FlatRange([i \in 1..Len(subs) |-> TraversalFrom(subs[i])], 1, Len(subs))

\* the cap is met while the walk is still going
AtCap == pc = "scan" /\ Len(meta_list) = cfg.max_files

\* C18: once len(meta_list) reaches max_files the walk goes on over the remaining
\* directories and no step of the scan changes the records, the excerpts, the
\* totals or the histogram; the files returned are the first max_files acceptable
\* files of the top-down, name-sorted traversal.
C18_CapFrame ==
    /\ [](Returned => /\ AllRels = Prefix(TraversalFrom(RootDir), cfg.max_files)
                      /\ Len(code_parts) = Len(meta_list))
    /\ [][(Len(meta_list) = cfg.max_files /\ scanNo' = scanNo) =>
              /\ meta_list' = meta_list
              /\ code_parts' = code_parts
              /\ totals' = totals
              /\ lang_stats' = lang_stats]_vars
    /\ [][(AtCap /\ todo # <<>>) => (pc' = "scan" /\ Len(todo') < Len(todo) + Len(fs))]_vars

\* the cap was met in the root directory; the walk has gone on into a
\* subdirectory that holds an acceptable file, and further directories remain
C18_Witness ==
    /\ AtCap
    /\ pending # <<>> /\ Head(pending).dir # RootDir /\ Acceptable(Head(pending).file)
    /\ \A i \in 1..Len(meta_list) : DirOf(meta_list[i].relative_path) = RootDir
    /\ todo # <<>>

\* the walk stands on a recognized file whose stat or read will raise
AtFailingFile ==
    /\ pc = "scan" /\ pending # <<>>
    /\ ~CapReached(Len(meta_list), cfg.max_files)
    /\ Recognized(CurFile.name)
    /\ \/ CurFile.fail = "stat"
       \/ CurFile.fail = "open" /\ ~Oversize(CurFile.size)

\* the path of file f of directory d has a record
HasRecord(d, f) == JoinPath(RelDir(fs, d), f.name) \in Paths

\* C19: a failure of stat or of the read of one file is not fatal: the step adds
\* no record and no excerpt, leaves the records and excerpts as they were, goes
\* on to the next file of the directory, and the scan returns the records of the
\* acceptable files around the failing one with a summary that counts them.
C19_ReadFailure ==
    /\ [][AtFailingFile =>
              /\ meta_list' = meta_list
              /\ code_parts' = code_parts
              /\ pending' = Tail(pending)
              /\ pc' = "scan" /\ todo' = todo]_vars
    /\ [](\A d \in 1..Len(fs) : \A f \in fs[d].files :
              f.fail \in {"stat", "open"} => ~HasRecord(d, f))
    /\ [](pc \in {"scan", "budget", "final", "done", "responded"})
    /\ [](Returned => /\ Paths = Range(Prefix(TraversalFrom(RootDir), cfg.max_files))
                      /\ summary.total_files = Len(meta_list)
                      /\ Len(code_parts) = Len(meta_list)
                      /\ TLen(payload) > 0)

\* a scan that met a failing stat and a failing read has returned with a record
\* of a file that comes after both in its directory
C19_Witness ==
    /\ Returned
    /\ \E d \in 1..Len(fs) : \E f, g, h \in fs[d].files :
          /\ f.fail = "stat" /\ g.fail = "open" /\ ~Oversize(g.size)
          /\ Recognized(f.name) /\ Recognized(g.name)
          /\ StrLess(f.name, h.name) /\ StrLess(g.name, h.name)
          /\ HasRecord(d, h)

\* the directories generate_tree prints: no ignored directory on the way down
\* from the root, and at a level below depth
TreeDirs ==
    {d \in 1..Len(fs) : /\ Cardinality(DirsAbove(d)) < cfg.depth
                        /\ \A a \in DirsAbove(d) : fs[a].name \notin IGNORE_PATHS}

\* the files of directory d the Scanner's rule recognizes
RecognizedIn(d) ==
    LET files == SortFiles(fs[d].files)
    IN  SumSeq([i \in 1..Len(files) |-> IF Recognized(files[i].name) THEN files[i].copies ELSE 0])

\* C20: the tree has one line for each directory that is not ignored and lies at
\* a level below depth, and under it one line for each file the Scanner's rule
\* recognizes (lower-cased extension, special name in any case), and no other.
C20_TreeAgrees ==
    (HeaderOnly /\ payload # MinimalHeader(summary)) =>
        CountLines(payload, "tree")
            = SumSeq([d \in 1..Len(fs) |-> IF d \in TreeDirs THEN 1 + RecognizedIn(d) ELSE 0])

\* a record was accepted for a file of a printed directory that the tree's rule
\* does not recognize
C20_Witness ==
    /\ HeaderOnly /\ payload # MinimalHeader(summary)
    /\ \E i \in 1..Len(meta_list) :
          LET rel == meta_list[i].relative_path
          IN  /\ DirOf(rel) \in TreeDirs
              /\ \E f \in fs[DirOf(rel)].files :
                    /\ JoinPath(RelDir(fs, DirOf(rel)), f.name) = rel
                    /\ Recognized(f.name) /\ ~TreeRecognized(f.name)

\* the number of links of the summary that have path f as source, plus the
\* number that have it as target
Degree(f) ==
    LET links == summary.dependency_links
    IN  Cardinality({k \in 1..Len(links) : links[k].source = f})
        + Cardinality({k \in 1..Len(links) : links[k].target = f})

\* the files listed in most_connected
Listed == {summary.most_connected[p].file : p \in 1..Len(summary.most_connected)}

\* C21: most_connected has at most 5 entries, sorted by connections descending;
\* an entry's connections is the number of links with the file as source plus the
\* number with it as target; no file outside the list has a higher degree than a
\* listed file, and a file without links is not listed.
C21_MostConnected ==
    Summarized =>
        LET mc == summary.most_connected
        IN  /\ Len(mc) <= 5
            /\ \A p, q \in 1..Len(mc) : p < q => (mc[p].connections >= mc[q].connections
                                                  /\ mc[p].file # mc[q].file)
            /\ \A p \in 1..Len(mc) : /\ mc[p].file \in Paths
                                     /\ mc[p].connections = Degree(mc[p].file)
                                     /\ mc[p].connections > 0
            /\ \A f \in Paths \ Listed : \A g \in Listed : Degree(f) <= Degree(g)
            /\ Len(mc) = Min(5, Cardinality({f \in Paths : Degree(f) > 0}))

\* more than five files have links, of differing degrees, and a file without
\* links was scanned
C21_Witness ==
    /\ Summarized
    /\ Cardinality({f \in Paths : Degree(f) > 0}) > 5
    /\ \E f, g \in Listed : Degree(f) > Degree(g)
    /\ \E f \in Paths \ Listed : \E g \in Listed : Degree(f) = Degree(g)
    /\ \E f \in Paths : Degree(f) = 0

\* the positions of the terminal events
Terminals == {i \in 1..Len(events) : events[i] \in {"done", "error"}}

\* C22: in the analyze stream metadata is the first event and file_list the
\* second, both before any thought or content event; a stream that the generator
\* ran to its end has exactly one terminal event, done or error, as its last
\* event, and no event follows a terminal event.
C22_EventOrder ==
    /\ [](/\ events # <<>> => (Streaming /\ events[1] = "metadata")
          /\ Len(events) >= 2 => events[2] = "file_list"
          /\ \A i \in 1..Len(events) :
                /\ events[i] = "metadata" => i = 1
                /\ events[i] = "file_list" => i = 2
                /\ events[i] \in {"thought", "content"} => i > 2
                /\ events[i] \in {"metadata", "file_list", "thought", "content", "done", "error"}
          /\ Cardinality(Terminals) <= 1
          /\ \A i \in Terminals : i = Len(events)
          /\ stream = "ended" <=> Terminals # {}
          /\ stream = "closed" => Terminals = {})
    /\ [][Terminals # {} => events' = events]_vars

\* the completions stream raised after thought and content events were sent
C22_Witness ==
    /\ stream = "ended"
    /\ events[Len(events)] = "error"
    /\ \E i, j \in 1..Len(events) : events[i] = "thought" /\ events[j] = "content"

\* C23: the totals of the summary agree with the returned files, also when files
\* failed during the scan: total_files is their number, total_lines the sum of
\* line_count, total_bytes the sum of size_bytes, the histogram sums to
\* total_lines, and code_parts has one excerpt per record in the same order.
C23_TotalsConsistent ==
    Summarized =>
        /\ summary.total_files = Len(meta_list)
        /\ summary.total_lines = SumSeq([i \in 1..Len(meta_list) |-> meta_list[i].line_count])
        /\ summary.total_bytes = SumSeq([i \in 1..Len(meta_list) |-> meta_list[i].size_bytes])
        /\ SumSeq([k \in 1..Len(summary.languages) |-> summary.languages[k][2]]) = summary.total_lines
        /\ Len(code_parts) = Len(meta_list)
        /\ \A i \in 1..Len(code_parts) : HeaderLinesOf(code_parts[i]) = <<i>>

\* a scan returned records after a file failed once its lines and bytes were counted
C23_Witness ==
    /\ Returned /\ meta_list # <<>>
    /\ \E d \in 1..Len(fs) : \E f \in fs[d].files :
          /\ f.fail = "mtime" /\ Recognized(f.name) /\ ~Oversize(f.size)
          /\ ~HasRecord(d, f)
          /\ summary.total_lines > SumSeq([i \in 1..Len(meta_list) |-> meta_list[i].line_count])

\* the piece of rank i holds the first line of its part and a newline, no more
FirstLineOnly(i) ==
    LET part == RankExcerpt(i)
    IN  /\ Emitted(i) = FirstLine(Split(part)).n + 1
        /\ ~HasLine(final_parts[i + 1], "code")

\* C24: in the tiered path used grows strictly with every file; once a rank gets
\* a budget <= 0, every later rank gets a budget <= 0 and a first-line-only
\* piece; one piece is emitted per file, in rank order.
C24_Exhaustion ==
    /\ [](Tiered =>
            /\ \A i \in 0..(Len(final_parts) - 1) :
                  /\ UsedBefore(i + 1) > UsedBefore(i)
                  /\ budgets[i + 1] <= 0 <=> remaining - UsedBefore(i) <= 0
                  /\ budgets[i + 1] <= 0 => FirstLineOnly(i)
                  /\ HeaderLinesOf(final_parts[i + 1]) \in {<<>>, <<sorted_files[i + 1]>>}
            /\ \A i, j \in 0..(Len(final_parts) - 1) :
                  (i < j /\ budgets[i + 1] <= 0) => budgets[j + 1] <= 0
            /\ Len(budgets) = Len(final_parts)
            /\ Returned => Len(final_parts) = Len(sorted_files))
    /\ [][(pc = "budget" /\ budgets' # budgets) =>
              /\ used' > used
              /\ Len(final_parts') = Len(final_parts) + 1
              /\ SubSeq(final_parts', 1, Len(final_parts)) = final_parts]_vars

\* a tiered scan in which the budget ran out and two later ranks followed
C24_Witness ==
    /\ Returned /\ Tiered
    /\ \E i \in 0..(Len(final_parts) - 3) :
          /\ budgets[i + 1] > 0
          /\ budgets[i + 2] <= 0 /\ budgets[i + 3] <= 0

\* the first-line-only pieces among the first n pieces
Omitted(n) == Cardinality({j \in 1..n : budgets[j] <= 0})

\* C25 as stated: in the tiered path used never exceeds remaining, and the final
\* check does not cut the header and the emitted pieces.
C25_AsStated ==
    Tiered =>
        /\ used <= remaining
        /\ Returned => (TLen(assembled) <= MAX_PAYLOAD_CHARS /\ payload = assembled)

\* C25: in the tiered path used is at most remaining plus the length of one
\* "...(truncated)..." marker plus one for each first-line-only piece; the excerpt
\* characters of every piece lie within the ceiling, so the final check cuts
\* only marker characters and the newlines of first-line-only pieces.
C25_UsedBound ==
    Tiered =>
        /\ used <= remaining + TLen(TruncMarker) + Omitted(Len(budgets))
        /\ \A i \in 0..(Len(final_parts) - 1) :
              /\ UsedBefore(i + 1) <= remaining + TLen(TruncMarker) + Omitted(i + 1)
              /\ budgets[i + 1] > 0 =>
                    UsedBefore(i) + Min(budgets[i + 1], TLen(RankExcerpt(i))) <= remaining
        /\ Returned =>
              /\ TLen(assembled) = MAX_PAYLOAD_CHARS - remaining + used
              /\ TLen(assembled) <= MAX_PAYLOAD_CHARS + TLen(TruncMarker) + Omitted(Len(budgets))
              /\ TLen(payload) <= MAX_PAYLOAD_CHARS + TLen(FinalMarker)

\* used went past remaining by a marker and first-line-only pieces, and the
\* final check cut the assembled payload
C25_Witness ==
    /\ Returned /\ Tiered
    /\ used > remaining + Omitted(Len(budgets))
    /\ Omitted(Len(budgets)) >= 1
    /\ payload # assembled

====
